---- MODULE Spec2Model ----
(***************************************************************************)
(* A model of open_flamingo/train/data.py: the streaming shard pipeline.   *)
(*                                                                         *)
(* The module holds several specifications over one set of variables, one  *)
(* per part of the pipeline; a variable a specification does not use keeps *)
(* the idle value its Init gives it.                                       *)
(*                                                                         *)
(*   SpecShard   the shared epoch cell, detshuffle2 and the node/worker    *)
(*               split of the shard list (one action per pipeline start)   *)
(*   SpecTar     tarfile_to_samples_nothrow on one worker's shard stream:  *)
(*               url_opener, tar_file_expander, group_by_keys_nothrow      *)
(*   SpecDriver  the three dataset builders: epoch sizing and the errors   *)
(*               raised at construction                                    *)
(*   SpecResample  ResampledShards2: the copies of one source in two       *)
(*               worker processes and the iterations made on them          *)
(*   SpecE2E     the non-resampled paired pipeline on four shards and two  *)
(*               workers, from the shard list to the batches               *)
(*   SpecDoc     preprocess_interleaved_sample on one document             *)
(*   SpecPile    preprocess_pile on one text sample                        *)
(*   SpecOrder   the order of the samples in repeated runs of one worker's *)
(*               pipeline: shard order, archive expansion, wds.shuffle     *)
(*   SpecCell    SharedEpoch at the grain of the lock of its Value: one     *)
(*               trainer process that sets, worker processes that get       *)
(*   SpecIterate the passes two worker processes start on one pipeline,     *)
(*               by iterate() and by the repetition of with_epoch, while    *)
(*               the trainer sets the epoch                                 *)
(*   SpecPipe    one worker's sample stages (select, decode, to_tuple,     *)
(*               map, batched, map_tuple) under with_epoch; FairSpecPipe   *)
(*               adds the progress of the worker process                   *)
(*                                                                         *)
(* The stages data.py takes from the webdataset library (_shuffle,         *)
(* split_by_node, split_by_worker, ...) are modelled by what the library   *)
(* does and are mapped to the line of data.py that puts them in the        *)
(* pipeline.                                                               *)
(***************************************************************************)
EXTENDS Integers, Sequences, FiniteSets, TLC

VARIABLES
    shared_epoch,   \* SharedEpoch.shared_epoch.value, the cell all workers read
    set_arg,        \* history: the argument of the latest set_epoch call (the
                    \* construction epoch before any)
    args,           \* the configuration a pipeline was built with
    run,            \* per (rank, worker): what its latest pipeline start computed
    tar,            \* one worker's tarfile_to_samples_nothrow: position, grouper
                    \* accumulator, records read and groups emitted
    dl,             \* what a dataset builder returned: the dataloader's counts
                    \* and the with_epoch argument, or the error raised
    pl,              \* one worker's sample pipeline under with_epoch
    rs,              \* ResampledShards2 objects and the iterations made on them
    ee,              \* the end-to-end scenario: per worker, the batches delivered so far
    doc,             \* an interleaved document and what preprocess_interleaved_sample made of it
    sm,              \* a text sample and what preprocess_pile made of it
    od,              \* one worker's runs of a pipeline: the sample order of each
    ce,              \* the epoch cell at the grain of its lock: the set and the
                    \* gets in progress and the values the gets returned
    itr             \* per worker process: the passes its pipeline has started,
                    \* each with the epoch and the seed it took

vars == <<shared_epoch, set_arg, args, run, tar, dl, pl, rs, ee, doc, sm, od, ce, itr>>

shardVars == <<shared_epoch, set_arg, args, run>>

tarVars == <<tar>>

driverVars == <<dl>>

pipeVars == <<pl>>

resVars == <<rs>>

docVars == <<doc>>

pileVars == <<sm>>

orderVars == <<od>>

cellVars == <<ce>>

iterVars == <<itr>>

e2eVars == <<ee>>

-----------------------------------------------------------------------------
(* Bounds of the model. *)

MaxEpoch == 1      \* epochs are 0..MaxEpoch
MaxShards == 3     \* a shard list holds 1..MaxShards shards
MaxWorld == 2      \* world_size is 1..MaxWorld
MaxWorkers == 2    \* args.workers is 0..MaxWorkers
MaxProcs == 4      \* world_size * max(1, workers) is at most MaxProcs
MaxIter == 2       \* a stage with a private epoch counter starts at most MaxIter times
MaxTarShards == 2  \* one worker's shard stream holds 1..MaxTarShards archives
MaxRecords == 3    \* archive entries read over one shard stream
MaxSamples == 5    \* args.train_num_samples is -1..MaxSamples
MaxBatch == 2      \* args.batch_size is 1..MaxBatch
MaxShare == 3      \* grouped samples in the shards of one worker
MaxEpochBatches == 2   \* the with_epoch argument is 0..MaxEpochBatches
MaxDraws == 2      \* ResampledShards2.nshards is 0 or MaxDraws
MaxSegments == 7   \* an interleaved document holds 0..MaxSegments segments
MaxSentences == 11  \* a text sample holds 0..MaxSentences sentences with a word in them
MaxRuns == 2       \* runs of one worker's pipeline that are compared
MaxResIters == 2   \* iterations made on the ResampledShards2 objects
MaxReaders == 2    \* worker processes that read the epoch cell
MaxSets == 2       \* calls of set_value
MaxGets == 2       \* calls of get_value
MaxPasses == 3     \* passes the pipelines of the two workers start

-----------------------------------------------------------------------------
(* Helpers. *)

Abs(n) == IF n < 0 THEN -n ELSE n

Max(a, b) == IF a >= b THEN a ELSE b

Min(a, b) == IF a <= b THEN a ELSE b

Range(s) == {s[i] : i \in 1..Len(s)}

\* How often x occurs in the sequence s.
Count(s, x) == Cardinality({i \in 1..Len(s) : s[i] = x})

\* itertools.islice(src, start, None, step): the elements at the 0-based
\* positions start, start + step, ...
Islice(src, start, step) ==
    LET idx == {i \in 1..Len(src) : i - 1 >= start /\ (i - 1 - start) % step = 0}
        n == Cardinality(idx)
    IN  [k \in 1..n |-> src[start + 1 + (k - 1) * step]]

-----------------------------------------------------------------------------
(* random.Random: a generator whose whole stream is a function of its seed. *)
(* The Mersenne twister is modelled by a small linear congruential          *)
(* generator; seed(n) of an int uses abs(n).                                *)

RngSeed(n) == Abs(n) % 251

RngNext(s) == (s * 37 + 11) % 251

\* rng.randint(0, n - 1): the index drawn (1-based here) and the state after.
RandInt(s, n) == [k |-> (RngNext(s) % n) + 1, rng |-> RngNext(s)]

-----------------------------------------------------------------------------
(* SharedEpoch and DataInfo.set_epoch. *)

\* A set_value that refuses to go back (what the code does not do).
set_value_guarded(cell, epoch) == IF epoch >= cell THEN epoch ELSE cell

\* SharedEpoch.set_value: the cell takes the argument, whatever it held.
set_value(cell, epoch) == epoch

\* SharedEpoch.get_value
get_value(cell) == cell

\* DataInfo.set_epoch: every DataInfo built by this file has a shared_epoch
\* and no sampler.
set_epoch(n) ==
    /\ shared_epoch' = set_value(shared_epoch, n)
    /\ set_arg' = n
    /\ UNCHANGED <<args, run, tar, dl, pl, resVars, e2eVars, docVars, pileVars, orderVars, cellVars, iterVars>>

-----------------------------------------------------------------------------
(* webdataset.filters._shuffle and pick, as detshuffle2.run calls them. *)

\* pick(buf, rng): draw k, return buf[k], move the last element into its place.
pick(buf, rng) ==
    LET d == RandInt(rng, Len(buf))
        moved == [buf EXCEPT ![d.k] = buf[Len(buf)]]
    IN  [sample |-> buf[d.k], buf |-> SubSeq(moved, 1, Len(buf) - 1), rng |-> d.rng]

\* The final loop of _shuffle: while len(buf) > 0: yield pick(buf, rng).
RECURSIVE ShuffleDrain(_, _, _)
ShuffleDrain(buf, rng, out) ==
    IF Len(buf) = 0 THEN out
    ELSE LET p == pick(buf, rng)
         IN  ShuffleDrain(p.buf, p.rng, Append(out, p.sample))

\* The main loop of _shuffle from position i of src: append the sample, append
\* one more while the buffer is below bufsize, yield a pick once the buffer
\* holds at least initial samples.
RECURSIVE ShuffleLoop(_, _, _, _, _, _, _)
ShuffleLoop(src, i, buf, rng, out, bufsize, initial) ==
    IF i > Len(src) THEN ShuffleDrain(buf, rng, out)
    ELSE LET b1 == Append(buf, src[i])
             more == Len(b1) < bufsize
             b2 == IF more /\ i + 1 <= Len(src) THEN Append(b1, src[i + 1]) ELSE b1
             j == IF more THEN i + 2 ELSE i + 1
         IN  IF Len(b2) >= initial
             THEN LET p == pick(b2, rng)
                  IN  ShuffleLoop(src, j, p.buf, p.rng, Append(out, p.sample),
                                  bufsize, initial)
             ELSE ShuffleLoop(src, j, b2, rng, out, bufsize, initial)

\* _shuffle(data, bufsize, initial, rng) with rng in state rng0.
shuffle(src, bufsize, initial, rng0) ==
    ShuffleLoop(src, 1, <<>>, rng0, <<>>, bufsize, Min(initial, bufsize))

-----------------------------------------------------------------------------
(* Idle values: what a variable holds in a specification that does not use it. *)

IdleArgs == [idle |-> TRUE]

IdleRun == [idle |-> TRUE]

IdleTar == [idle |-> TRUE]

IdleDl == [idle |-> TRUE]

IdlePl == [idle |-> TRUE]

IdleRs == [idle |-> TRUE]

IdleEe == [idle |-> TRUE]

IdleDoc == [idle |-> TRUE]

IdleSm == [idle |-> TRUE]

IdleOd == [idle |-> TRUE]

IdleCe == [idle |-> TRUE]

IdleIt == [idle |-> TRUE]

-----------------------------------------------------------------------------
(* The shard-level stages of one worker process: SimpleShardList,           *)
(* detshuffle2, split_by_node, split_by_worker.                             *)

Ranks == 0..(MaxWorld - 1)

WorkerIds == 0..(Max(1, MaxWorkers) - 1)

\* A worker process: <<rank, worker id>>.
Procs == Ranks \X WorkerIds

\* The dataloader workers of a node: args.workers of them, or the main process
\* alone when args.workers = 0 (pytorch_worker_info then answers worker 0 of 1).
NumWorkers(a) == Max(1, a.workers)

Active(w) == w[1] < args.world_size /\ w[2] < NumWorkers(args)

\* pytorch_worker_seed(): the seed torch gave the dataloader worker (the node's
\* base seed plus the worker id) when there is one, else webdataset's
\* rank * 1000 + worker.
pytorch_worker_seed(w) ==
    IF args.workers > 0 THEN args.base_seed[w[1]] + w[2] ELSE w[1] * 1000 + w[2]

\* A run that takes the epoch the pipeline was built with.
detshuffle2_epoch_built(self_epoch, cell) ==
    IF self_epoch.shared
    THEN [epoch |-> args.epoch, self_epoch |-> self_epoch, cell |-> cell]
    ELSE [epoch |-> self_epoch.n + 1, self_epoch |-> [self_epoch EXCEPT !.n = @ + 1],
          cell |-> cell]

\* A run that uses its own counter first and increments it then.
detshuffle2_epoch_after(self_epoch, cell) ==
    IF self_epoch.shared
    THEN [epoch |-> get_value(cell), self_epoch |-> self_epoch, cell |-> cell]
    ELSE [epoch |-> self_epoch.n, self_epoch |-> [self_epoch EXCEPT !.n = @ + 1],
          cell |-> cell]

\* detshuffle2.run, the epoch: the shared cell's value, or the stage's own
\* counter incremented first. The cell is read, never written: it is after
\* the call what it was before.
detshuffle2_epoch(self_epoch, cell) ==
    IF self_epoch.shared
    THEN [epoch |-> get_value(cell), self_epoch |-> self_epoch, cell |-> cell]
    ELSE [epoch |-> self_epoch.n + 1, self_epoch |-> [self_epoch EXCEPT !.n = @ + 1],
          cell |-> cell]

\* A run that forgets the epoch in the seed.
detshuffle2_seed_fixed(self_seed, epoch, w) ==
    IF self_seed < 0 THEN pytorch_worker_seed(w) ELSE self_seed

\* A detshuffle2.run that always seeds from the worker's own seed.
detshuffle2_seed_worker(self_seed, epoch, w) == pytorch_worker_seed(w) + epoch

\* detshuffle2.run, the seed handed to the fresh random.Random().
detshuffle2_seed(self_seed, epoch, w) ==
    IF self_seed < 0 THEN pytorch_worker_seed(w) + epoch ELSE self_seed + epoch

\* wds.split_by_node
split_by_node(src, rank, world_size) ==
    IF world_size > 1 THEN Islice(src, rank, world_size) ELSE src

\* A split_by_worker that hands every worker the node's whole stream.
split_by_worker_all(src, worker, num_workers) == src

\* wds.split_by_worker
split_by_worker(src, worker, num_workers) ==
    IF num_workers > 1 THEN Islice(src, worker, num_workers) ELSE src

NotStarted(mode) ==
    [started |-> FALSE, self_epoch |-> mode, epoch |-> 0, seed |-> 0,
     shuffled |-> <<>>, share |-> <<>>]

\* Worker w starts an iteration of its pipeline (DataPipeline.iterator1): the
\* shard list goes through detshuffle2.run and the two splits. Everything after
\* the read of the shared cell is local to the worker process.
Start(w) ==
    /\ Active(w)
    /\ run[w].self_epoch.shared \/ run[w].self_epoch.n + 1 < MaxIter
    /\ LET e == detshuffle2_epoch(run[w].self_epoch, shared_epoch)
           seed == detshuffle2_seed(args.seed, e.epoch, w)
           shuffled == shuffle(args.urls, args.bufsize, args.initial, RngSeed(seed))
           node == split_by_node(shuffled, w[1], args.world_size)
           share == split_by_worker(node, w[2], NumWorkers(args))
       IN  run' = [run EXCEPT ![w] =
                      [started |-> TRUE, self_epoch |-> e.self_epoch,
                       epoch |-> e.epoch, seed |-> seed,
                       shuffled |-> shuffled, share |-> share]]
    /\ UNCHANGED <<shared_epoch, set_arg, args, tar, dl, pl, resVars, e2eVars, docVars, pileVars, orderVars, cellVars, iterVars>>

\* The (bufsize, initial) pairs a detshuffle2 stage is built with: the pair
\* add_detshuffle2_step passes, and two small ones that make the buffer stream.
ShardShuffleSizes == {<<2000, 500>>, <<2, 1>>}

\* The base seeds torch draws for the dataloader of each node: the same on
\* every node, or one of its own per node.
BaseSeeds == {[r \in Ranks |-> 0], [r \in Ranks |-> 7 * r + 1]}

\* The configurations a non-resampled pipeline is built with.
ShardArgs ==
    {[urls |-> [i \in 1..n |-> i], seed |-> sd, world_size |-> ws, workers |-> nw,
      bufsize |-> bi[1], initial |-> bi[2], base_seed |-> bs, shared |-> sh,
      epoch |-> ep] :
        n \in 1..MaxShards, sd \in {-1, 0, 1}, ws \in 1..MaxWorld,
        nw \in 0..MaxWorkers, bi \in ShardShuffleSizes,
        bs \in BaseSeeds, sh \in BOOLEAN, ep \in 0..MaxEpoch}

\* The node base seeds matter only where pytorch_worker_seed reads them.
ShardArgsOk(a) ==
    /\ a.world_size * NumWorkers(a) <= MaxProcs
    /\ (a.seed >= 0 \/ a.workers = 0) => \A r \in Ranks : a.base_seed[r] = 0

InitShard ==
    /\ itr = IdleIt
    /\ ce = IdleCe
    /\ od = IdleOd
    /\ sm = IdleSm
    /\ doc = IdleDoc
    /\ ee = IdleEe
    /\ rs = IdleRs
    /\ args \in {a \in ShardArgs : ShardArgsOk(a)}
    /\ shared_epoch = args.epoch
    /\ set_arg = args.epoch
    /\ run = [w \in Procs |-> NotStarted([shared |-> args.shared, n |-> -1])]
    /\ tar = IdleTar
    /\ dl = IdleDl
    /\ pl = IdlePl

NextShard ==
    \/ \E n \in 0..MaxEpoch : set_epoch(n)
    \/ \E w \in Procs : Start(w)

SpecShard == InitShard /\ [][NextShard]_vars

-----------------------------------------------------------------------------
(* Claims about the shard-level stages and the epoch cell (SpecShard). *)

ActiveProcs == {w \in Procs : Active(w)}

AllStarted == \A w \in ActiveProcs : run[w].started

\* Every worker's latest start read the same epoch value.
SameEpochRead == \A w1, w2 \in ActiveProcs : run[w1].epoch = run[w2].epoch

\* The shard u is routed to exactly one worker, once.
RoutedOnce(u) ==
    /\ Cardinality({w \in ActiveProcs : u \in Range(run[w].share)}) = 1
    /\ \A w \in ActiveProcs : Count(run[w].share, u) <= 1

SharesPartition ==
    /\ \A u \in Range(args.urls) : RoutedOnce(u)
    /\ \A w \in ActiveProcs : Range(run[w].share) \subseteq Range(args.urls)

\* C1: two independent runs of detshuffle2 over the same input, configured with
\* the same base seed >= 0 and reading the same epoch value, emit the elements
\* in exactly the same order.
C1_ShuffleDeterministic ==
    \A w1, w2 \in ActiveProcs :
        (/\ run[w1].started /\ run[w2].started
         /\ args.seed >= 0
         /\ run[w1].epoch = run[w2].epoch)
        => run[w1].shuffled = run[w2].shuffled

\* Two different workers ran the streaming shuffle at the same epoch with a
\* base seed >= 0, and the shuffle changed the order of the list.
C1_Witness ==
    \E w1, w2 \in ActiveProcs :
        /\ w1 # w2 /\ run[w1].started /\ run[w2].started
        /\ args.seed >= 0 /\ run[w1].epoch = run[w2].epoch
        /\ args.bufsize < Len(args.urls)
        /\ run[w1].shuffled # args.urls
        /\ pytorch_worker_seed(w1) # pytorch_worker_seed(w2)

\* C2 as stated: for every base seed, once all workers of a pipeline built on
\* the shared epoch cell have started in one epoch, each shard is routed to exactly one (node, worker) pair.
C2_PartitionAnySeed == (args.shared /\ AllStarted /\ SameEpochRead) => SharesPartition

\* C2 as amended: for every base seed >= 0, once all workers of a pipeline
\* built on the shared epoch cell have started in one epoch, the workers' shard subsets are pairwise disjoint and their
\* union is the full shard list.
C2_PartitionSeedNonNeg ==
    (args.shared /\ AllStarted /\ SameEpochRead /\ args.seed >= 0) => SharesPartition

\* Four workers on two nodes split a shuffled list of three shards: one
\* worker's share is empty and the list was reordered.
C2_Witness ==
    /\ args.shared /\ AllStarted /\ SameEpochRead /\ args.seed >= 0
    /\ Cardinality(ActiveProcs) = 4
    /\ Len(args.urls) = 3
    /\ run[<<0, 0>>].shuffled # args.urls
    /\ \E w \in ActiveProcs : run[w].share = <<>>

\* C10 as stated: the shared epoch value never decreases.
C10_NeverRolledBack == [][shared_epoch' >= shared_epoch]_vars

\* C10 as amended: the cell always holds the argument of the latest set_epoch
\* call (the construction epoch before any), so it is non-decreasing exactly
\* as long as the arguments passed to set_epoch are.
C10_HoldsLatestArgument ==
    /\ [](shared_epoch = set_arg)
    /\ [][set_arg' >= set_arg => shared_epoch' >= shared_epoch]_vars

\* set_epoch was called with an argument below the construction epoch after
\* workers had started.
C10_Witness ==
    /\ shared_epoch < args.epoch
    /\ set_arg = shared_epoch
    /\ \E w \in ActiveProcs : run[w].started

-----------------------------------------------------------------------------
(* tarfile_to_samples_nothrow: url_opener, tar_file_expander and            *)
(* group_by_keys_nothrow over the shard stream of one worker.               *)

None == [none |-> TRUE]

\* Archive entry names, already split at the first dot of the file name; the
\* entry "c" has no extension.
FileNames ==
    {[base |-> b, ext |-> e] : b \in {"a", "b"}, e \in {"jpg", "txt", "TXT"}}
        \cup {[base |-> "c", ext |-> ""]}

\* A base_plus_ext that finds a prefix in every name.
base_plus_ext_always(fname) ==
    [none |-> FALSE, prefix |-> fname.base, suffix |-> fname.ext]

\* webdataset base_plus_ext: (prefix, suffix), or (None, None) for a name with
\* no extension.
base_plus_ext(fname) ==
    IF fname.ext = "" THEN [none |-> TRUE, prefix |-> "", suffix |-> ""]
    ELSE [none |-> FALSE, prefix |-> fname.base, suffix |-> fname.ext]

\* str.lower on the suffixes of FileNames.
lower(suffix) == IF suffix = "TXT" THEN "txt" ELSE suffix

\* A valid_sample that also wants the fields of an image-caption pair.
valid_sample_complete(sample) ==
    /\ sample # None
    /\ \E f \in sample.fields : f[1] = "txt"
    /\ \E f \in sample.fields : f[1] \in {"png", "jpg", "jpeg"}

\* webdataset valid_sample: a dict with at least one key and no __bad__ mark;
\* the accumulator always has __key__ and __url__, so only None is invalid.
valid_sample(sample) == sample # None

\* The library's default handler: the exception goes on to the caller.
reraise_exception == "raise"

\* log_and_continue: warn and answer True.
log_and_continue == "continue"

\* The handler tarfile_to_samples_nothrow would get were none passed on.
tarfile_handler_default == reraise_exception

\* The handler tarfile_to_samples_nothrow passes to all three stages.
tarfile_handler == log_and_continue

\* The body of the loop of group_by_keys_nothrow for one file sample (lcase
\* True, suffixes None): the accumulator and the groups yielded after it. The
\* value of an entry is its position in the stream read.
group_step(current_sample, out, rec, value) ==
    LET ks == base_plus_ext(rec.fname)
    IN  IF ks.none THEN [current_sample |-> current_sample, out |-> out]
        ELSE LET suffix == lower(ks.suffix)
                 fresh == \/ current_sample = None
                          \/ ks.prefix # current_sample.key
                          \/ \E f \in current_sample.fields : f[1] = suffix
                 out1 == IF fresh /\ valid_sample(current_sample)
                         THEN Append(out, current_sample) ELSE out
                 cur1 == IF fresh
                         THEN [none |-> FALSE, key |-> ks.prefix, url |-> rec.url,
                               fields |-> {}]
                         ELSE current_sample
             IN  [current_sample |-> [cur1 EXCEPT !.fields = @ \cup {<<suffix, value>>}],
                  out |-> out1]

\* The last lines of group_by_keys_nothrow: yield the accumulator if valid.
group_flush(current_sample, out) ==
    IF valid_sample(current_sample) THEN Append(out, current_sample) ELSE out

\* What url_opener and tar_file_expander do with an exception: with a handler
\* that answers True the loop continues with the next shard, reraise_exception
\* lets the exception out.
TarFailure(handler) ==
    /\ tar.pc \in {"open", "read"}
    /\ tar.url <= tar.nshards
    /\ tar' = [tar EXCEPT
                 !.pc = IF handler = "continue" THEN "open" ELSE "raised",
                 !.url = @ + 1,
                 !.failed = @ \cup {<<tar.url, Len(tar.fed)>>}]

\* url_opener: gopen(url) succeeds.
TarOpen ==
    /\ tar.pc = "open"
    /\ tar.url <= tar.nshards
    /\ tar' = [tar EXCEPT !.pc = "read", !.opened = @ \cup {tar.url}]
    /\ UNCHANGED <<shardVars, driverVars, pipeVars, resVars, e2eVars, docVars, pileVars, orderVars, cellVars, iterVars>>

\* url_opener: gopen(url) raises.
TarOpenFail ==
    /\ tar.pc = "open"
    /\ TarFailure(tarfile_handler)
    /\ UNCHANGED <<shardVars, driverVars, pipeVars, resVars, e2eVars, docVars, pileVars, orderVars, cellVars, iterVars>>

\* tar_file_expander yields the next entry of the open archive and
\* group_by_keys_nothrow takes it.
TarRead(fname) ==
    /\ tar.pc = "read"
    /\ Len(tar.fed) < MaxRecords
    /\ LET rec == [fname |-> fname, url |-> tar.url]
           g == group_step(tar.current_sample, tar.out, rec, Len(tar.fed) + 1)
       IN  tar' = [tar EXCEPT !.fed = Append(@, rec),
                              !.current_sample = g.current_sample,
                              !.out = g.out]
    /\ UNCHANGED <<shardVars, driverVars, pipeVars, resVars, e2eVars, docVars, pileVars, orderVars, cellVars, iterVars>>

\* tar_file_expander: reading the open archive raises (corrupt or truncated).
TarReadFail ==
    /\ tar.pc = "read"
    /\ TarFailure(tarfile_handler)
    /\ UNCHANGED <<shardVars, driverVars, pipeVars, resVars, e2eVars, docVars, pileVars, orderVars, cellVars, iterVars>>

\* The open archive has no more entries.
TarEndShard ==
    /\ tar.pc = "read"
    /\ tar' = [tar EXCEPT !.pc = "open", !.url = @ + 1]
    /\ UNCHANGED <<shardVars, driverVars, pipeVars, resVars, e2eVars, docVars, pileVars, orderVars, cellVars, iterVars>>

\* The shard stream is exhausted: group_by_keys_nothrow flushes.
TarEndStream ==
    /\ tar.pc = "open"
    /\ tar.url > tar.nshards
    /\ tar' = [tar EXCEPT !.pc = "done",
                          !.current_sample = None,
                          !.out = group_flush(tar.current_sample, tar.out)]
    /\ UNCHANGED <<shardVars, driverVars, pipeVars, resVars, e2eVars, docVars, pileVars, orderVars, cellVars, iterVars>>

InitTar ==
    /\ itr = IdleIt
    /\ ce = IdleCe
    /\ od = IdleOd
    /\ sm = IdleSm
    /\ doc = IdleDoc
    /\ ee = IdleEe
    /\ rs = IdleRs
    /\ shared_epoch = 0
    /\ set_arg = 0
    /\ args = IdleArgs
    /\ run = IdleRun
    /\ dl = IdleDl
    /\ pl = IdlePl
    /\ tar \in {[pc |-> "open", nshards |-> n, url |-> 1, fed |-> <<>>,
                  failed |-> {}, opened |-> {}, current_sample |-> None,
                  out |-> <<>>] : n \in 1..MaxTarShards}

NextTar ==
    \/ TarOpen
    \/ TarOpenFail
    \/ \E fname \in FileNames : TarRead(fname)
    \/ TarReadFail
    \/ TarEndShard
    \/ TarEndStream

SpecTar == InitTar /\ [][NextTar]_vars

-----------------------------------------------------------------------------
(* Claims about the archive stream and the grouper (SpecTar). *)

\* filter_no_caption_or_no_image
filter_no_caption_or_no_image(sample) ==
    /\ \E f \in sample.fields : f[1] = "txt"
    /\ \E f \in sample.fields : f[1] \in {"png", "jpg", "jpeg"}

\* The positions, in the stream read, of the entries held by emitted groups.
EmittedEntries ==
    UNION {{f[2] : f \in tar.out[i].fields} : i \in 1..Len(tar.out)}

\* The positions of the entries read whose name has an extension.
NamedEntries == {i \in 1..Len(tar.fed) : tar.fed[i].fname.ext # ""}

FedNames == [i \in 1..Len(tar.fed) |-> tar.fed[i].fname]

\* The stream a.jpg, a.txt, b.jpg.
StreamABJ ==
    <<[base |-> "a", ext |-> "jpg"], [base |-> "a", ext |-> "txt"],
      [base |-> "b", ext |-> "jpg"]>>

\* C6 as stated: the grouper emits a group only if it is complete (it has a
\* text part and an image part).
C6_OnlyCompleteGroups ==
    \A i \in 1..Len(tar.out) : filter_no_caption_or_no_image(tar.out[i])

\* C6 as amended: the grouper emits every group that holds at least one
\* entry, complete or not, so that at the end of the stream every named entry
\* read is in an emitted group; the stream a.jpg, a.txt, b.jpg yields the two
\* groups a and b, of which filter_no_caption_or_no_image passes only a.
C6_EmitsEveryGroup ==
    /\ \A i \in 1..Len(tar.out) : tar.out[i].fields # {}
    /\ tar.pc = "done" => EmittedEntries = NamedEntries
    /\ (tar.pc = "done" /\ FedNames = StreamABJ) =>
          /\ Len(tar.out) = 2
          /\ tar.out[1].key = "a" /\ tar.out[2].key = "b"
          /\ tar.out[2].fields = {<<"jpg", 3>>}
          /\ SelectSeq(tar.out, filter_no_caption_or_no_image) = <<tar.out[1]>>

\* The stream a.jpg, a.txt, b.jpg of one archive has been read to its end.
C6_Witness ==
    /\ tar.pc = "done"
    /\ FedNames = StreamABJ
    /\ tar.failed = {}
    /\ tar.nshards = 1
    /\ Len(tar.out) = 2

\* C8: a shard whose opening or reading fails yields no further records, every
\* later shard of the stream is still opened and its records reach the
\* grouper's output, and no exception leaves the stage.
C8_ShardFailureSkipsShard ==
    /\ tar.pc # "raised"
    /\ \A f \in tar.failed :
          \A i \in 1..Len(tar.fed) : tar.fed[i].url = f[1] => i <= f[2]
    /\ tar.pc = "done" =>
          /\ \A u \in 1..tar.nshards :
                u \in tar.opened \/ \E f \in tar.failed : f[1] = u
          /\ EmittedEntries = NamedEntries

\* The first archive failed after one entry, the second was read, and entries
\* of both are in emitted groups.
C8_Witness ==
    /\ tar.pc = "done"
    /\ tar.failed = {<<1, 1>>}
    /\ 2 \in tar.opened
    /\ \E i \in 1..Len(tar.out) : tar.out[i].url = 2
    /\ \E i \in 1..Len(tar.out) : tar.out[i].url = 1

\* The reference segmentation of the entries fed[i..]: groups is the sequence
\* of groups so far, each the set of the positions of its entries. An entry
\* with no extension is passed over; another one opens a group when there is
\* none, when its base name is not that of the last group, or when the last
\* group holds an entry with its lower-cased extension; else it joins the last
\* group.
RECURSIVE RefScan(_, _, _)
RefScan(fed, i, groups) ==
    IF i > Len(fed) THEN groups
    ELSE IF fed[i].fname.ext = "" THEN RefScan(fed, i + 1, groups)
    ELSE LET last == IF groups = <<>> THEN {} ELSE groups[Len(groups)]
             opens == \/ groups = <<>>
                      \/ \E j \in last : fed[j].fname.base # fed[i].fname.base
                      \/ \E j \in last : lower(fed[j].fname.ext) = lower(fed[i].fname.ext)
         IN  RefScan(fed, i + 1,
                     IF opens THEN Append(groups, {i})
                     ELSE [groups EXCEPT ![Len(groups)] = @ \cup {i}])

RefGroups == RefScan(tar.fed, 1, <<>>)

\* The positions of the entries a group holds.
EntriesOf(sample) == {f[2] : f \in sample.fields}

\* The group sample is the reference group of the positions ps: it holds
\* these entries under their lower-cased extensions and has their base name
\* for key.
IsRefGroup(sample, ps) ==
    /\ sample # None
    /\ sample.fields = {<<lower(tar.fed[i].fname.ext), i>> : i \in ps}
    /\ \A i \in ps : sample.key = tar.fed[i].fname.base

Grouping == ~("idle" \in DOMAIN tar)

\* C23: at every point of the stream the groups emitted are, in order, the
\* reference groups of the entries read so far but the last, which is the
\* accumulator; at the end of the stream the last is emitted too. The
\* reference groups are disjoint and hold every entry that has a prefix.
C23_ReferenceSegmentation ==
    Grouping =>
        LET ref == RefGroups
            n == Len(ref)
        IN  /\ tar.pc # "done" =>
                  /\ Len(tar.out) = Max(0, n - 1)
                  /\ (n = 0) <=> (tar.current_sample = None)
                  /\ n > 0 => IsRefGroup(tar.current_sample, ref[n])
            /\ tar.pc = "done" => Len(tar.out) = n
            /\ \A k \in 1..Len(tar.out) : IsRefGroup(tar.out[k], ref[k])
            /\ \A k, l \in 1..n : k < l => \A i \in ref[k], j \in ref[l] : i < j
            /\ UNION {ref[k] : k \in 1..n} = NamedEntries

\* The stream a.jpg, c, a.TXT has been read to its end: the entry without a
\* prefix did not close the group, which holds the two others.
C23_Witness ==
    /\ Grouping
    /\ tar.pc = "done"
    /\ Len(tar.fed) = 3
    /\ tar.fed[1].fname = [base |-> "a", ext |-> "jpg"]
    /\ tar.fed[2].fname = [base |-> "c", ext |-> ""]
    /\ tar.fed[3].fname = [base |-> "a", ext |-> "TXT"]
    /\ Len(tar.out) = 1
    /\ tar.out[1].fields = {<<"jpg", 1>>, <<"txt", 3>>}

\* C24: every group, emitted or in the accumulator, holds entries of one
\* archive only, the one it names as its origin.
C24_NoCrossShardGroups ==
    Grouping =>
        /\ \A k \in 1..Len(tar.out) :
              \A i \in EntriesOf(tar.out[k]) : tar.fed[i].url = tar.out[k].url
        /\ tar.current_sample # None =>
              \A i \in EntriesOf(tar.current_sample) :
                  tar.fed[i].url = tar.current_sample.url

-----------------------------------------------------------------------------
(* The dataset builders: get_wds_dataset, get_pile_dataset,                 *)
(* get_interleaved_dataset.                                                 *)

\* math.floor(a / b) and math.ceil(a / b) for b > 0 (the float quotient of two
\* ints of this size rounds to the same integer as the exact one).
FloorDiv(a, b) == a \div b

CeilDiv(a, b) == -((-a) \div b)

\* A round_fn that rounds down whatever it is asked.
round_fn_down(floor, a, b) == FloorDiv(a, b)

round_fn(floor, a, b) == IF floor THEN FloorDiv(a, b) ELSE CeilDiv(a, b)

\* A recompute_samples_stats that forgets the nodes in the sample count.
recompute_samples_stats_local(a, num_samples) ==
    LET global_batch_size == a.batch_size * a.world_size
        num_batches0 == round_fn(a.floor, num_samples, global_batch_size)
        num_workers == Max(1, a.workers)
        num_worker_batches == round_fn(a.floor, num_batches0, num_workers)
        num_batches == num_worker_batches * num_workers
    IN  [num_samples |-> num_batches * a.batch_size, num_batches |-> num_batches,
         num_worker_batches |-> num_worker_batches]

\* recompute_samples_stats(args, floor, num_samples)
recompute_samples_stats(a, num_samples) ==
    LET global_batch_size == a.batch_size * a.world_size
        num_batches0 == round_fn(a.floor, num_samples, global_batch_size)
        num_workers == Max(1, a.workers)
        num_worker_batches == round_fn(a.floor, num_batches0, num_workers)
        num_batches == num_worker_batches * num_workers
    IN  [num_samples |-> num_batches * global_batch_size, num_batches |-> num_batches,
         num_worker_batches |-> num_worker_batches]

\* An inlined computation that keeps the sample count it was given.
inline_samples_stats_kept(a, num_samples0) ==
    [recompute_samples_stats(a, num_samples0) EXCEPT !.num_samples = num_samples0]

\* The same computation as get_pile_dataset and get_wds_dataset write it out.
inline_samples_stats(a, num_samples0) ==
    LET global_batch_size == a.batch_size * a.world_size
        num_batches0 == round_fn(a.floor, num_samples0, global_batch_size)
        num_workers == Max(1, a.workers)
        num_worker_batches == round_fn(a.floor, num_batches0, num_workers)
        num_batches == num_worker_batches * num_workers
        num_samples == num_batches * global_batch_size
    IN  [num_samples |-> num_samples, num_batches |-> num_batches,
         num_worker_batches |-> num_worker_batches]

\* prepare_dataloader, and the tail of the two other builders: the dataset
\* gets with_epoch(num_worker_batches), the loader the two counts.
Dataloader(kind, a, st) ==
    [status |-> "ok", kind |-> kind, a |-> a,
     with_epoch |-> st.num_worker_batches,
     num_batches |-> st.num_batches, num_samples |-> st.num_samples]

Raised(kind, a, exn) ==
    [status |-> exn, kind |-> kind, a |-> a,
     with_epoch |-> 0, num_batches |-> 0, num_samples |-> 0]

\* The size sidecars that may lie next to the shards.
Sidecars == {"none", "sizes.json", "__len__"}

\* get_dataset_size: the total of the sizes.json entries of the shards (two
\* samples a shard here), else the number in __len__ (three here), else None
\* (0 here); and the number of names the pattern expands to. No shard file is
\* looked at.
get_dataset_size(a) ==
    [total_size |-> IF a.sidecar = "sizes.json" THEN 2 * a.num_shards
                    ELSE IF a.sidecar = "__len__" THEN 3
                    ELSE 0,
     num_shards |-> a.num_shards]

\* The builders' "num_samples = None" right after the call.
num_samples_reset(total_size) == 0

\* get_shard_stats, and the head of the two other builders: the size read by
\* get_dataset_size is overwritten by None, so num_samples is
\* args.train_num_samples.
get_shard_stats(a) ==
    LET size == get_dataset_size(a)
        num_samples == num_samples_reset(size.total_size)
    IN  [num_samples |-> IF num_samples = 0 THEN a.train_num_samples ELSE num_samples,
         num_shards |-> size.num_shards]

\* A falsy num_samples (None, 0) is a RuntimeError.
HasNumSamples(a) == get_shard_stats(a).num_samples # 0

\* An assert that lets every shard count pass.
EnoughShards_unchecked(a) == TRUE

\* The assert of the non-resampled builders.
EnoughShards(a) ==
    a.resampled \/ get_shard_stats(a).num_shards >= a.workers * a.world_size

BuildResult(kind, a, st) ==
    IF ~HasNumSamples(a) THEN Raised(kind, a, "RuntimeError")
    ELSE IF ~EnoughShards(a) THEN Raised(kind, a, "AssertionError")
    ELSE Dataloader(kind, a, st)

get_wds_dataset(a) ==
    /\ dl.status = "none"
    /\ dl' = BuildResult("image_text", a,
                         inline_samples_stats(a, get_shard_stats(a).num_samples))
    /\ UNCHANGED <<shardVars, tarVars, pipeVars, resVars, e2eVars, docVars, pileVars, orderVars, cellVars, iterVars>>

get_pile_dataset(a) ==
    /\ dl.status = "none"
    /\ dl' = BuildResult("pile", a,
                         inline_samples_stats(a, get_shard_stats(a).num_samples))
    /\ UNCHANGED <<shardVars, tarVars, pipeVars, resVars, e2eVars, docVars, pileVars, orderVars, cellVars, iterVars>>

get_interleaved_dataset(a) ==
    /\ dl.status = "none"
    /\ dl' = BuildResult("interleaved", a,
                         recompute_samples_stats(a, get_shard_stats(a).num_samples))
    /\ UNCHANGED <<shardVars, tarVars, pipeVars, resVars, e2eVars, docVars, pileVars, orderVars, cellVars, iterVars>>

\* The arguments of a builder and what args.shards points at: the number of
\* names the pattern expands to (braceexpand yields at least one), whether
\* files of these names exist, and the sidecar. train_num_samples 0 stands
\* for None as well.
DriverArgs ==
    [batch_size : 1..MaxBatch, world_size : 1..MaxWorld, workers : 0..MaxWorkers,
     train_num_samples : (-1)..MaxSamples, floor : BOOLEAN,
     num_shards : {1, MaxShards}, resampled : BOOLEAN,
     exist : BOOLEAN, sidecar : Sidecars]

InitDriver ==
    /\ itr = IdleIt
    /\ ce = IdleCe
    /\ od = IdleOd
    /\ sm = IdleSm
    /\ doc = IdleDoc
    /\ ee = IdleEe
    /\ rs = IdleRs
    /\ shared_epoch = 0
    /\ set_arg = 0
    /\ args = IdleArgs
    /\ run = IdleRun
    /\ tar = IdleTar
    /\ pl = IdlePl
    /\ dl = [status |-> "none"]

\* get_data calls one builder, once: after it there are no arguments to
\* call another with.
CallArgs == IF dl.status = "none" THEN DriverArgs ELSE {}

NextDriver ==
    \/ \E a \in CallArgs : get_wds_dataset(a)
    \/ \E a \in CallArgs : get_pile_dataset(a)
    \/ \E a \in CallArgs : get_interleaved_dataset(a)

SpecDriver == InitDriver /\ [][NextDriver]_vars

-----------------------------------------------------------------------------
(* Claims about the builders (SpecDriver). *)

\* C4: for positive batch_size and world_size, workers >= 0, every sample count
\* given and both rounding modes, the counts the loader exposes satisfy
\* num_batches = num_worker_batches * max(1, workers) and
\* num_samples = num_worker_batches * max(1, workers) * batch_size * world_size,
\* num_worker_batches being the with_epoch argument.
C4_RecomputedCounts ==
    dl.status = "ok" =>
        /\ dl.num_batches = dl.with_epoch * Max(1, dl.a.workers)
        /\ dl.num_samples =
              dl.with_epoch * Max(1, dl.a.workers) * dl.a.batch_size * dl.a.world_size

\* The interleaved builder, no dataloader workers, two nodes, rounding up: the
\* recomputed sample count exceeds the one given.
C4_Witness ==
    /\ dl.status = "ok"
    /\ dl.kind = "interleaved"
    /\ dl.a.workers = 0 /\ dl.a.world_size = 2 /\ dl.a.batch_size = 2
    /\ ~dl.a.floor
    /\ dl.a.train_num_samples = 5
    /\ dl.num_samples = 8 /\ dl.num_batches = 2 /\ dl.with_epoch = 2

Built == ~("idle" \in DOMAIN dl) /\ dl.status # "none"

\* C14: a builder given a pattern that names no existing shard does not
\* return a pipeline.
C14_EmptyPatternFatal ==
    (Built /\ ~dl.a.exist) => dl.status # "ok"

\* C15: without resampling a builder raises whenever the shards are fewer
\* than workers * world_size; with resampling it raises only for the missing
\* sample count.
C15_TooFewShardsFatal ==
    Built =>
        /\ (~dl.a.resampled /\ dl.a.num_shards < dl.a.workers * dl.a.world_size)
              => dl.status \in {"RuntimeError", "AssertionError"}
        /\ dl.a.resampled => dl.status \in {"ok", "RuntimeError"}
        /\ (dl.a.resampled /\ dl.a.train_num_samples # 0) => dl.status = "ok"

\* The pile builder, with a sample count, one shard, two workers and no
\* resampling, has raised the assertion.
C15_Witness ==
    /\ Built
    /\ dl.kind = "pile"
    /\ ~dl.a.resampled
    /\ dl.a.train_num_samples = 4
    /\ dl.a.num_shards = 1
    /\ dl.a.workers = 2
    /\ dl.status = "AssertionError"

\* C16: a builder raises for the missing size exactly when there is neither
\* a sidecar nor a train_num_samples; with a sidecar and no train_num_samples
\* it sizes the epoch from the sidecar's total.
C16_SizeFromSidecarOrHint ==
    Built =>
        /\ dl.status = "RuntimeError"
              <=> (dl.a.sidecar = "none" /\ dl.a.train_num_samples = 0)
        /\ (dl.status = "ok" /\ dl.a.sidecar # "none" /\ dl.a.train_num_samples = 0)
              => dl.num_samples =
                    recompute_samples_stats(dl.a, get_dataset_size(dl.a).total_size).num_samples

\* C27: with a sample count of at least one given, rounding up (the default)
\* makes the loader's sample count at least the count given and the with_epoch
\* argument at least one; rounding down makes the loader's sample count at
\* most the count given.
C27_RoundingDirection ==
    (Built /\ dl.status = "ok" /\ get_shard_stats(dl.a).num_samples >= 1) =>
        /\ ~dl.a.floor =>
              /\ dl.num_samples >= get_shard_stats(dl.a).num_samples
              /\ dl.with_epoch >= 1
        /\ dl.a.floor => dl.num_samples <= get_shard_stats(dl.a).num_samples

\* Five samples, batches of two on two nodes with two workers each, rounding
\* up: one batch a worker, eight samples an epoch.
C27_Witness ==
    /\ Built
    /\ dl.status = "ok"
    /\ ~dl.a.floor
    /\ dl.a.train_num_samples = 5
    /\ dl.a.batch_size = 2 /\ dl.a.world_size = 2 /\ dl.a.workers = 2
    /\ dl.with_epoch = 1
    /\ dl.num_samples = 8

\* C29: whichever builder is called, the with_epoch argument and the two
\* counts of the loader are those recompute_samples_stats computes from the
\* same arguments.
C29_BuildersAgree ==
    (Built /\ dl.status = "ok") =>
        LET st == recompute_samples_stats(dl.a, get_shard_stats(dl.a).num_samples)
        IN  /\ dl.with_epoch = st.num_worker_batches
            /\ dl.num_batches = st.num_batches
            /\ dl.num_samples = st.num_samples

\* The paired builder, rounding down five samples with batches of two and
\* two workers: one batch a worker, four samples an epoch.
C29_Witness ==
    /\ Built
    /\ dl.status = "ok"
    /\ dl.kind = "image_text"
    /\ dl.a.floor
    /\ dl.a.train_num_samples = 5
    /\ dl.a.batch_size = 2 /\ dl.a.world_size = 1 /\ dl.a.workers = 2
    /\ dl.with_epoch = 1 /\ dl.num_batches = 2 /\ dl.num_samples = 4

-----------------------------------------------------------------------------
(* One worker's sample stages under with_epoch.                             *)
(*                                                                          *)
(* A grouped sample is one of four kinds: "good"; "missing" (it lacks a     *)
(* field the pipeline reads); "undecodable" (its payload does not decode);  *)
(* "rejected" (its preprocessor raises). The worker's shards hold a fixed   *)
(* collection of samples, pl.share; each pass of with_epoch reads all of    *)
(* them, in an order the unseeded sample shuffle chooses.                   *)

SampleKinds == <<"good", "missing", "undecodable", "rejected">>

DatasetKinds == {"image_text", "pile", "interleaved"}

\* What a stage does with an exception, by its handler.
OnException(handler) == IF handler = "continue" THEN "skip" ELSE "raise"

\* The handler of wds.to_tuple: log_and_continue in get_wds_dataset, none (the
\* library's reraise_exception) in the two other pipelines.
to_tuple_handler(kind) ==
    IF kind = "image_text" THEN log_and_continue ELSE reraise_exception

\* The handler of wds.decode, wds.map and wds.map_tuple in all pipelines.
map_handler == log_and_continue

\* The stages before wds.batched, for one sample: "pass" (it reaches the
\* batcher), "skip" or "raise".
\*   image_text: select(filter_no_caption_or_no_image), decode, to_tuple
\*   pile, interleaved: to_tuple, map(preprocess)
sample_stages(kind, sample) ==
    IF kind = "image_text"
    THEN IF sample = "missing" THEN "skip"
         ELSE IF sample = "undecodable" THEN OnException(map_handler)
         ELSE "pass"
    ELSE IF sample = "missing" THEN OnException(to_tuple_handler(kind))
         ELSE IF sample \in {"undecodable", "rejected"} THEN OnException(map_handler)
         ELSE "pass"

\* The stage after wds.batched, for one batch: map_tuple(preprocess_image_fn,
\* preprocess_text_fn) in get_wds_dataset, nothing in the other pipelines.
batch_stages(kind, share, batch) ==
    IF kind = "image_text" /\ \E k \in 1..Len(batch) : share[batch[k]] = "rejected"
    THEN OnException(map_handler)
    ELSE "pass"

\* A batcher built with partial=True.
batched_partial_true == TRUE

\* wds.batched(args.batch_size, partial=False)
batched_partial == FALSE

\* A with_epoch that cuts one batch late.
EpochOver_late(nsamples, count) == nsamples > 0 /\ count > nsamples

\* with_epoch(n): the pipeline is repeated and cut after n batches when n > 0,
\* and repeated without a cut otherwise.
EpochOver(nsamples, count) == nsamples > 0 /\ count >= nsamples

\* A batch leaves the batcher: it goes through batch_stages and, if it passes,
\* to the consumer. The count of delivered batches stops one above the cut.
Yield(p, batch) ==
    LET r == batch_stages(p.kind, p.share, batch)
        made == Append(p.made, batch)
        count == IF p.count > p.nsamples THEN p.count ELSE p.count + 1
    IN  IF r = "raise" THEN [p EXCEPT !.made = made, !.pc = "raised"]
        ELSE IF r = "skip" THEN [p EXCEPT !.made = made]
        ELSE [p EXCEPT !.made = made, !.got = Append(@, batch), !.count = count,
                       !.pc = IF EpochOver(p.nsamples, count) THEN "done" ELSE @]

\* The consumer pulls, and sample i of the share comes down the stages; a
\* full batch is yielded when the next sample reaches the batcher.
Feed(i) ==
    /\ pl.pc = "pass"
    /\ i \in 1..Len(pl.share)
    /\ \A k \in 1..Len(pl.fed) : pl.fed[k] # i
    /\ LET r == sample_stages(pl.kind, pl.share[i])
           p1 == [pl EXCEPT !.fed = Append(@, i)]
           p2 == [p1 EXCEPT !.tobatch = Append(@, i)]
       IN  pl' = IF r = "raise" THEN [p1 EXCEPT !.pc = "raised"]
                 ELSE IF r = "skip" THEN p1
                 ELSE IF Len(pl.batch) >= pl.batch_size
                      THEN [Yield(p2, pl.batch) EXCEPT !.batch = <<i>>]
                      ELSE [p2 EXCEPT !.batch = Append(@, i)]
    /\ UNCHANGED <<shardVars, tarVars, driverVars, resVars, e2eVars, docVars, pileVars, orderVars, cellVars, iterVars>>

\* The shards are exhausted: the batcher yields a last full batch and drops a
\* partial one; the pass is over.
EndPass ==
    /\ pl.pc = "pass"
    /\ Len(pl.fed) = Len(pl.share)
    /\ LET p1 == [pl EXCEPT !.batch = <<>>, !.pc = "ended"]
       IN  pl' = IF Len(pl.batch) = 0 THEN p1
                 ELSE IF Len(pl.batch) = pl.batch_size \/ batched_partial
                      THEN Yield(p1, pl.batch)
                      ELSE p1
    /\ UNCHANGED <<shardVars, tarVars, driverVars, resVars, e2eVars, docVars, pileVars, orderVars, cellVars, iterVars>>

\* with_epoch repeats the pipeline: a new pass with fresh stages.
Restart ==
    /\ pl.pc = "ended"
    /\ pl' = [pl EXCEPT !.pc = "pass", !.fed = <<>>, !.tobatch = <<>>,
                        !.batch = <<>>, !.made = <<>>, !.got = <<>>]
    /\ UNCHANGED <<shardVars, tarVars, driverVars, resVars, e2eVars, docVars, pileVars, orderVars, cellVars, iterVars>>

\* The shares of up to MaxShare samples, one per collection of kinds.
RECURSIVE SharesOfLen(_)
SharesOfLen(n) ==
    IF n = 0 THEN {<<>>}
    ELSE {Append(sh, SampleKinds[k]) : sh \in SharesOfLen(n - 1), k \in 1..Len(SampleKinds)}

Ordered(sh) ==
    \A i \in 1..(Len(sh) - 1) :
        \E k1, k2 \in 1..Len(SampleKinds) :
            k1 <= k2 /\ sh[i] = SampleKinds[k1] /\ sh[i + 1] = SampleKinds[k2]

Shares == {sh \in UNION {SharesOfLen(n) : n \in 0..MaxShare} : Ordered(sh)}

InitPipe ==
    /\ itr = IdleIt
    /\ ce = IdleCe
    /\ od = IdleOd
    /\ sm = IdleSm
    /\ doc = IdleDoc
    /\ ee = IdleEe
    /\ rs = IdleRs
    /\ shared_epoch = 0
    /\ set_arg = 0
    /\ args = IdleArgs
    /\ run = IdleRun
    /\ tar = IdleTar
    /\ dl = IdleDl
    /\ pl \in {[kind |-> kd, batch_size |-> b, nsamples |-> n, share |-> sh,
                 pc |-> "pass", fed |-> <<>>, tobatch |-> <<>>, batch |-> <<>>,
                 made |-> <<>>, got |-> <<>>, count |-> 0] :
                    kd \in DatasetKinds, b \in 1..MaxBatch,
                    n \in 0..MaxEpochBatches, sh \in Shares}

NextPipe ==
    \/ \E i \in 1..MaxShare : Feed(i)
    \/ EndPass
    \/ Restart

SpecPipe == InitPipe /\ [][NextPipe]_vars

\* The worker process keeps running: it is never suspended for ever while it
\* has a step to take.
FairSpecPipe == SpecPipe /\ WF_vars(NextPipe)

-----------------------------------------------------------------------------
(* Claims about the sample stages (SpecPipe, FairSpecPipe).                 *)

RECURSIVE Flatten(_)
Flatten(batches) ==
    IF batches = <<>> THEN <<>> ELSE Head(batches) \o Flatten(Tail(batches))

\* The samples of this pass, in the order read, that are of the given kinds.
FedOfKinds(kinds) ==
    LET Test(i) == pl.share[i] \in kinds IN SelectSeq(pl.fed, Test)

Piping == ~("idle" \in DOMAIN pl)

\* C5: every batch the batcher emits holds exactly batch_size samples, the
\* consecutive ones in the order they reached it; every batch the consumer
\* gets is one of them; and at the end of a pass every full batch has been
\* emitted and the trailing partial batch is gone.
C5_FullBatchesOnly ==
    Piping =>
        /\ \A k \in 1..Len(pl.made) :
              /\ Len(pl.made[k]) = pl.batch_size
              /\ pl.made[k] = SubSeq(pl.tobatch, (k - 1) * pl.batch_size + 1,
                                     k * pl.batch_size)
        /\ \A k \in 1..Len(pl.got) : \E j \in 1..Len(pl.made) : pl.got[k] = pl.made[j]
        /\ pl.pc = "ended" =>
              /\ pl.batch = <<>>
              /\ Len(pl.made) = Len(pl.tobatch) \div pl.batch_size

\* A pass ended with three samples at a batcher of size two: one batch was
\* emitted and the third sample was discarded.
C5_Witness ==
    /\ Piping
    /\ pl.pc = "ended"
    /\ pl.batch_size = 2
    /\ Len(pl.tobatch) = 3
    /\ Len(pl.made) = 1
    /\ Len(pl.got) = 1

\* C7: a sample whose preprocessing raises is skipped and nothing else is: no
\* exception reaches the consumer because of it, and the batches delivered
\* are the consecutive batch_size-chunks of the samples read so far that
\* preprocess without error, all of the full chunks once the pass has ended.
C7_RejectionSkipsSampleOnly ==
    Piping =>
        /\ pl.pc = "raised" => pl.share[pl.fed[Len(pl.fed)]] # "rejected"
        /\ pl.pc # "raised" =>
              /\ Flatten(pl.got) =
                    SubSeq(FedOfKinds({"good"}), 1, pl.batch_size * Len(pl.got))
              /\ pl.pc = "ended" =>
                    Len(pl.got) = Len(FedOfKinds({"good"})) \div pl.batch_size

\* C9: a sample that lacks the field its pipeline reads is skipped: it never
\* reaches the batcher and never raises to the consumer.
C9_MissingFieldSkipped ==
    Piping =>
        /\ \A k \in 1..Len(pl.tobatch) : pl.share[pl.tobatch[k]] # "missing"
        /\ pl.pc # "raised"

\* C3: the worker's iteration comes to an end having delivered exactly the
\* number of batches with_epoch was given.
C3_ExactlyPerWorkerBatches ==
    Piping => <>(pl.pc = "done" /\ pl.count = pl.nsamples)

-----------------------------------------------------------------------------
(* ResampledShards2.                                                        *)
(*                                                                          *)
(* rs.obj holds the copies of one source object, one per worker process:    *)
(* the value worker_seed() answers there, the state of self.rng, the        *)
(* object's own epoch counter and the iteration now drawing from it. An     *)
(* iterator is a generator on the object; within a process the pipeline     *)
(* drops the one it has before it asks for the next, so each object has at  *)
(* most one live iteration. rs.its is the history of all iterations: the    *)
(* object, the worker seed and epoch read at the start, the shards yielded. *)

ResObjs == 1..2

\* The values worker_seed() answers in the two processes: the same, or not.
ResWorkerSeeds == {<<0, 0>>, <<0, 1>>}

\* random.Random() with no argument seeds itself from the system's entropy.
ResEntropy == {<<1, 1>>, <<1, 2>>}

\* An __iter__ that counts the shared cell up as it does its own counter.
ResampledShards2_epoch_counted(self_epoch, cell) ==
    IF self_epoch.shared
    THEN [epoch |-> set_value(cell, get_value(cell) + 1), self_epoch |-> self_epoch,
          cell |-> set_value(cell, get_value(cell) + 1)]
    ELSE [epoch |-> self_epoch.n + 1, self_epoch |-> [self_epoch EXCEPT !.n = @ + 1],
          cell |-> cell]

\* ResampledShards2.__iter__, the epoch: as in detshuffle2.run.
ResampledShards2_epoch(self_epoch, cell) ==
    IF self_epoch.shared
    THEN [epoch |-> get_value(cell), self_epoch |-> self_epoch, cell |-> cell]
    ELSE [epoch |-> self_epoch.n + 1, self_epoch |-> [self_epoch EXCEPT !.n = @ + 1],
          cell |-> cell]

\* An __iter__ that never reseeds self.rng.
ResampledShards2_seed_kept(rng, deterministic, worker_seed, epoch) == rng

\* ResampledShards2.__iter__, self.rng after the deterministic branch.
ResampledShards2_seed(rng, deterministic, worker_seed, epoch) ==
    IF deterministic THEN RngSeed(worker_seed + epoch) ELSE rng

\* A choice that can answer what follows the list (0 here).
choice_past_end(rng, urls) ==
    LET d == RandInt(rng, Len(urls) + 1)
    IN  [url |-> IF d.k > Len(urls) THEN 0 ELSE urls[d.k], rng |-> d.rng]

\* self.rng.choice(self.urls)
choice(rng, urls) ==
    LET d == RandInt(rng, Len(urls))
    IN  [url |-> urls[d.k], rng |-> d.rng]

\* The first next() on a new iterator of object o: the generator body runs to
\* the for loop.
ResIter(o) ==
    /\ Len(rs.its) < MaxResIters
    /\ LET ob == rs.obj[o]
           e == ResampledShards2_epoch(ob.self_epoch, shared_epoch)
           rng == ResampledShards2_seed(ob.rng, rs.deterministic, ob.worker_seed, e.epoch)
           it == [obj |-> o, worker_seed |-> ob.worker_seed, epoch |-> e.epoch,
                  draws |-> <<>>, done |-> FALSE]
       IN  rs' = [rs EXCEPT !.its = Append(@, it),
                            !.obj[o] = [ob EXCEPT !.rng = rng,
                                                  !.self_epoch = e.self_epoch,
                                                  !.live = Len(rs.its) + 1]]
    /\ UNCHANGED <<shardVars, tarVars, driverVars, pipeVars, e2eVars, docVars, pileVars, orderVars, cellVars, iterVars>>

\* One turn of "for _ in range(self.nshards)" in the live iteration of o: a
\* draw, or the end of the generator.
ResDraw(o) ==
    /\ rs.obj[o].live > 0
    /\ LET i == rs.obj[o].live
           it == rs.its[i]
           c == choice(rs.obj[o].rng, rs.urls)
       IN  /\ ~it.done
           /\ rs' = IF Len(it.draws) < rs.nshards
                     THEN [rs EXCEPT !.its[i].draws = Append(@, c.url),
                                     !.obj[o].rng = c.rng]
                     ELSE [rs EXCEPT !.its[i].done = TRUE]
    /\ UNCHANGED <<shardVars, tarVars, driverVars, pipeVars, e2eVars, docVars, pileVars, orderVars, cellVars, iterVars>>

\* The worker seeds matter only where __iter__ reads them, the initial state
\* of self.rng only where it is not overwritten.
ResArgsOk(r) ==
    IF r.deterministic
    THEN r.obj[1].rng = r.obj[2].rng
    ELSE r.obj[1].worker_seed = r.obj[2].worker_seed

InitResample ==
    /\ itr = IdleIt
    /\ ce = IdleCe
    /\ od = IdleOd
    /\ sm = IdleSm
    /\ doc = IdleDoc
    /\ ee = IdleEe
    /\ args = IdleArgs
    /\ run = IdleRun
    /\ tar = IdleTar
    /\ dl = IdleDl
    /\ pl = IdlePl
    /\ shared_epoch \in 0..MaxEpoch
    /\ set_arg = shared_epoch
    /\ rs \in {[urls |-> [i \in 1..n |-> i], nshards |-> ns, deterministic |-> det,
                 obj |-> [o \in ResObjs |->
                            [worker_seed |-> ws[o], rng |-> en[o],
                             self_epoch |-> [shared |-> sh, n |-> -1], live |-> 0]],
                 its |-> <<>>] :
                    n \in 1..MaxShards, ns \in {0, MaxDraws}, det \in BOOLEAN,
                    ws \in ResWorkerSeeds, en \in ResEntropy, sh \in BOOLEAN}
    /\ ResArgsOk(rs)

NextResample ==
    \/ \E n \in 0..MaxEpoch : set_epoch(n)
    \/ \E o \in ResObjs : ResIter(o)
    \/ \E o \in ResObjs : ResDraw(o)

SpecResample == InitResample /\ [][NextResample]_vars

-----------------------------------------------------------------------------
(* Claims about ResampledShards2 (SpecResample). *)

Resampling == ~("idle" \in DOMAIN rs)

IsPrefix(s, t) == Len(s) <= Len(t) /\ s = SubSeq(t, 1, Len(s))

\* C11: with deterministic resampling, two iterations that read the same
\* worker seed and the same epoch yield the same shards in the same order (as
\* far as each has got), on one object or on two.
C11_SameSeedEpochSameDraws ==
    (Resampling /\ rs.deterministic) =>
        \A i, j \in 1..Len(rs.its) :
            (rs.its[i].worker_seed = rs.its[j].worker_seed
                /\ rs.its[i].epoch = rs.its[j].epoch)
            => (IsPrefix(rs.its[i].draws, rs.its[j].draws)
                    \/ IsPrefix(rs.its[j].draws, rs.its[i].draws))
               /\ (rs.its[i].done /\ rs.its[j].done
                      => rs.its[i].draws = rs.its[j].draws)

\* Two complete iterations on the same object in the same epoch, with two
\* draws each from a list of at least two shards.
C11_Witness ==
    /\ Resampling
    /\ rs.deterministic
    /\ Len(rs.urls) >= 2
    /\ \E i, j \in 1..Len(rs.its) :
          /\ i < j
          /\ rs.its[i].obj = rs.its[j].obj
          /\ rs.its[i].epoch = rs.its[j].epoch
          /\ rs.its[i].done /\ rs.its[j].done
          /\ Len(rs.its[i].draws) = 2
          /\ rs.its[j].draws = rs.its[i].draws

\* C12: an iteration yields members of the shard list only, never more than
\* nshards of them, and ends when it has yielded exactly nshards.
C12_DrawsFromList ==
    Resampling =>
        \A i \in 1..Len(rs.its) :
            /\ Len(rs.its[i].draws) <= rs.nshards
            /\ \A k \in 1..Len(rs.its[i].draws) : rs.its[i].draws[k] \in Range(rs.urls)
            /\ rs.its[i].done => Len(rs.its[i].draws) = rs.nshards

\* A complete iteration that yielded the same shard twice although the list
\* holds another one.
C12_Witness ==
    /\ Resampling
    /\ Len(rs.urls) >= 2
    /\ \E i \in 1..Len(rs.its) :
          /\ rs.its[i].done
          /\ Len(rs.its[i].draws) = 2
          /\ rs.its[i].draws[1] = rs.its[i].draws[2]

-----------------------------------------------------------------------------
(* The paired pipeline end to end, for one configuration: one node, two     *)
(* dataloader workers, batches of two, train_num_samples eight, four shards *)
(* that hold eight valid image+text samples between them.                   *)

Scenario ==
    [batch_size |-> 2, world_size |-> 1, workers |-> 2, train_num_samples |-> 8,
     floor |-> FALSE, num_shards |-> 4, resampled |-> FALSE,
     exist |-> TRUE, sidecar |-> "none"]

E2EWorkers == 0..(Scenario.workers - 1)

RECURSIVE SumSeq(_)
SumSeq(q) == IF q = <<>> THEN 0 ELSE Head(q) + SumSeq(Tail(q))

\* The ways the samples lie in the shards: no shard is empty.
ShardSizes ==
    {z \in [1..Scenario.num_shards -> 1..Scenario.train_num_samples] :
        SumSeq(z) = Scenario.train_num_samples}

\* The samples of shard k, numbered through the shards.
SamplesOf(sizes, k) ==
    LET before == SumSeq(SubSeq(sizes, 1, k - 1))
    IN  (before + 1)..(before + sizes[k])

\* The shards detshuffle2, split_by_node and split_by_worker leave worker w.
\* The shared epoch stays as built, so every pass of w has the same shards.
E2EShards(seed, epoch, w) ==
    LET urls == [k \in 1..Scenario.num_shards |-> k]
        shuffled == shuffle(urls, 2000, 500, RngSeed(detshuffle2_seed(seed, epoch, <<0, w>>)))
        node == split_by_node(shuffled, 0, Scenario.world_size)
    IN  split_by_worker(node, w, Scenario.workers)

\* What tarfile_to_samples_nothrow hands worker w in one pass: the samples of
\* its shards.
E2EShare(sizes, shards) ==
    UNION {SamplesOf(sizes, shards[k]) : k \in 1..Len(shards)}

\* The next batch_size samples of a pass: the unseeded wds.shuffle (its
\* buffer holds the whole share) may bring the unread samples in any order.
NextSamples(unread, n) ==
    {q \in [1..n -> unread] : \A i, j \in 1..n : i # j => q[i] # q[j]}

\* Worker w delivers a batch: the samples pass select, decode and to_tuple,
\* the batch passes map_tuple, and with_epoch counts it.
E2EBatch(w, batch) ==
    /\ ee.wk[w].pc = "pass"
    /\ batch \in NextSamples(ee.share[w] \ ee.wk[w].read, Scenario.batch_size)
    /\ \A k \in 1..Len(batch) : sample_stages("image_text", "good") = "pass"
    /\ LET got == Append(ee.wk[w].got, batch)
           n == inline_samples_stats(Scenario, get_shard_stats(Scenario).num_samples).num_worker_batches
       IN  ee' = [ee EXCEPT !.wk[w] =
                     [read |-> ee.wk[w].read \cup Range(batch), got |-> got,
                      pc |-> IF EpochOver(n, Len(got)) THEN "done" ELSE "pass"]]
    /\ UNCHANGED <<shardVars, tarVars, driverVars, pipeVars, resVars, docVars, pileVars, orderVars, cellVars, iterVars>>

\* Worker w runs out of samples: the batcher drops what it holds and
\* with_epoch starts the pipeline again.
E2ERestart(w) ==
    /\ ee.wk[w].pc = "pass"
    /\ Cardinality(ee.share[w] \ ee.wk[w].read) < Scenario.batch_size
    /\ ee' = [ee EXCEPT !.wk[w].read = {}]
    /\ UNCHANGED <<shardVars, tarVars, driverVars, pipeVars, resVars, docVars, pileVars, orderVars, cellVars, iterVars>>

InitE2E ==
    /\ itr = IdleIt
    /\ ce = IdleCe
    /\ od = IdleOd
    /\ sm = IdleSm
    /\ doc = IdleDoc
    /\ shared_epoch \in 0..MaxEpoch
    /\ set_arg = shared_epoch
    /\ args = IdleArgs
    /\ run = IdleRun
    /\ tar = IdleTar
    /\ dl = IdleDl
    /\ pl = IdlePl
    /\ rs = IdleRs
    /\ ee \in {[sizes |-> z, seed |-> 0,
                 share |-> [w \in E2EWorkers |->
                              E2EShare(z, E2EShards(0, get_value(shared_epoch), w))],
                 wk |-> [w \in E2EWorkers |-> [read |-> {}, got |-> <<>>, pc |-> "pass"]]] :
                    z \in ShardSizes}

NextE2E ==
    \/ \E w \in E2EWorkers :
          \E batch \in NextSamples(ee.share[w] \ ee.wk[w].read, Scenario.batch_size) :
              E2EBatch(w, batch)
    \/ \E w \in E2EWorkers : E2ERestart(w)

SpecE2E == InitE2E /\ [][NextE2E]_vars

-----------------------------------------------------------------------------
(* Claims about the end-to-end scenario (SpecE2E). *)

E2ERunning == ~("idle" \in DOMAIN ee)

E2EAllDone == \A w \in E2EWorkers : ee.wk[w].pc = "done"

\* How often sample x is in the batches worker w delivered.
E2ETimes(w, x) == Count(Flatten(ee.wk[w].got), x)

E2EEachOnce ==
    \A x \in 1..Scenario.train_num_samples :
        E2ETimes(0, x) + E2ETimes(1, x) = 1

-----------------------------------------------------------------------------
(* preprocess_interleaved_sample.                                           *)
(*                                                                          *)
(* A document is a list of segments and the parallel is_image list. A       *)
(* segment is an image of some size or a text: "text" stands for a text     *)
(* with a word character in it, "punct" for one of non-word characters      *)
(* only (blanks included), "" for the empty one. A list entry carries the   *)
(* position it had in the document.                                         *)

Segments == {"big", "narrow", "low", "text", "punct"}

\* Image.size of the decoded segment: <<width, height>>.
parse_image(seg) ==
    IF seg = "big" THEN <<11, 11>> ELSE IF seg = "narrow" THEN <<10, 11>> ELSE <<11, 10>>

IsImageSegment(seg) == seg \in {"big", "narrow", "low"}

\* An is_unwanted_image that lets a dimension of 10 pass.
is_unwanted_image_below(size) == size[1] < 10 \/ size[2] < 10

\* is_unwanted_image
is_unwanted_image(size) == size[1] <= 10 \/ size[2] <= 10

\* The loop of remove_unwanted_images from entry i on.
RECURSIVE remove_unwanted_images_from(_, _, _, _)
remove_unwanted_images_from(i, num_images, il, fl) ==
    IF i > Len(il) THEN [num_images |-> num_images, il |-> il, fl |-> fl]
    ELSE IF ~fl[i] THEN remove_unwanted_images_from(i + 1, num_images, il, fl)
    ELSE LET is_unwanted == is_unwanted_image(parse_image(il[i].s))
             n == IF is_unwanted THEN num_images ELSE num_images + 1
         IN  IF is_unwanted \/ n > 5
             THEN remove_unwanted_images_from(i + 1, n,
                      [il EXCEPT ![i].s = ""], [fl EXCEPT ![i] = FALSE])
             ELSE remove_unwanted_images_from(i + 1, n, il, fl)

remove_unwanted_images(il, fl) == remove_unwanted_images_from(1, 0, il, fl)

\* preprocess_sentence: runs of white space become one blank; the kind of
\* the text stays what it was.
preprocess_sentence(sentence) == sentence

\* remove_punctuation_based_sentences: re.match(r"^\W+$", text) blanks the
\* text; the empty text does not match.
remove_punctuation_based_sentences(il, fl) ==
    [i \in 1..Len(il) |->
        IF ~fl[i] /\ il[i].s = "punct" THEN [il[i] EXCEPT !.s = ""] ELSE il[i]]

\* filter_out_empty_sentences: the entries that are not "", with their flags.
filter_out_empty_sentences(il, fl) ==
    LET keep == {i \in 1..Len(il) : il[i].s # ""}
        Kept(i) == i \in keep
        idx == SelectSeq([i \in 1..Len(il) |-> i], Kept)
    IN  [il |-> [k \in 1..Len(idx) |-> il[idx[k]]],
         fl |-> [k \in 1..Len(idx) |-> fl[idx[k]]]]

\* preprocess_sentences: the count it answers is the length of the filtered
\* list, images included.
preprocess_sentences(il, fl) ==
    LET il1 == [i \in 1..Len(il) |->
                   IF fl[i] THEN il[i] ELSE [il[i] EXCEPT !.s = preprocess_sentence(@)]]
        il2 == remove_punctuation_based_sentences(il1, fl)
        f == filter_out_empty_sentences(il2, fl)
    IN  [num_sentences |-> Len(f.il), il |-> f.il, fl |-> f.fl]

\* substitute_with_image_tag: the images, in order, and the list with the
\* tag in the place of each image.
substitute_with_image_tag(il, fl) ==
    LET Flagged(i) == fl[i]
        idx == SelectSeq([i \in 1..Len(il) |-> i], Flagged)
    IN  [images |-> [k \in 1..Len(idx) |-> il[idx[k]]],
         il |-> [i \in 1..Len(il) |->
                    IF fl[i] THEN [il[i] EXCEPT !.s = "<|endofchunk|><image>"] ELSE il[i]]]

\* The pieces of one entry of the list in the joined text: the tag is two
\* special tokens, a sentence is one piece. Each piece carries the position
\* its segment had in the document.
TextPieces(entry) ==
    IF entry.s = "<|endofchunk|><image>"
    THEN <<[tok |-> "<|endofchunk|>", pos |-> entry.pos],
           [tok |-> "<image>", pos |-> entry.pos]>>
    ELSE <<[tok |-> entry.s, pos |-> entry.pos]>>

\* str.replace(old, "", 1) on the pieces: the first old is taken out.
ReplaceFirst(text, old) ==
    LET hits == {i \in 1..Len(text) : text[i].tok = old}
    IN  IF hits = {} THEN text
        ELSE LET first == CHOOSE i \in hits : \A j \in hits : i <= j
             IN  SubSeq(text, 1, first - 1) \o SubSeq(text, first + 1, Len(text))

\* prepare_text_data, the text handed to the tokenizer: the list joined, the
\* first <|endofchunk|> taken out, <|endofchunk|> and the eos token appended.
\* The blanks the other replacements move are not pieces.
prepare_text_data(il) ==
    LET joined == Flatten([i \in 1..Len(il) |-> TextPieces(il[i])])
    IN  ReplaceFirst(joined, "<|endofchunk|>")
            \o <<[tok |-> "<|endofchunk|>", pos |-> 0], [tok |-> "eos", pos |-> 0]>>

\* A prepare_image_data that does not pad.
prepare_image_data_unpadded(images) == [k \in 1..Len(images) |-> images[k].pos]

\* prepare_image_data: the slots of images_tensor along its first dimension,
\* each the position of the image it holds, or 0 for a slot of zeros.
prepare_image_data(images) ==
    [k \in 1..Len(images) |-> images[k].pos]
        \o (IF Len(images) < 5 THEN [k \in 1..(5 - Len(images)) |-> 0] ELSE <<>>)

\* preprocess_interleaved_sample
preprocess_interleaved_sample(sample) ==
    LET il0 == [i \in 1..Len(sample) |-> [pos |-> i, s |-> sample[i]]]
        fl0 == [i \in 1..Len(sample) |-> IsImageSegment(sample[i])]
        r1 == remove_unwanted_images(il0, fl0)
        r2 == preprocess_sentences(r1.il, r1.fl)
        r3 == substitute_with_image_tag(r2.il, r2.fl)
        images == r3.images
        out == [status |-> "ok", unwanted |-> r1, images |-> <<>>, slots |-> <<>>,
                text |-> <<>>]
    IN  IF r1.num_images = 0
        THEN [out EXCEPT !.status = "ValueError: No images in sample"]
        ELSE IF r2.num_sentences = 0
        THEN [out EXCEPT !.status = "ValueError: No sentences in sample"]
        ELSE IF Len(images) = 0
        THEN [out EXCEPT !.status = "AssertionError"]
        ELSE [out EXCEPT !.images = images, !.slots = prepare_image_data(images),
                         !.text = prepare_text_data(r3.il)]

\* The preprocessor is called on the document.
Preprocess ==
    /\ doc.pc = "new"
    /\ doc' = [doc EXCEPT !.pc = "done", !.out = preprocess_interleaved_sample(doc.sample)]
    /\ UNCHANGED <<shardVars, tarVars, driverVars, pipeVars, resVars, e2eVars, pileVars, orderVars, cellVars, iterVars>>

\* The documents of up to MaxSegments segments.
Docs == UNION {[1..n -> Segments] : n \in 0..MaxSegments}

\* The documents tried: the small images of one document are of one shape.
DocOk(d) == ~(\E i, j \in 1..Len(d) : d[i] = "narrow" /\ d[j] = "low")

InitDoc ==
    /\ itr = IdleIt
    /\ ce = IdleCe
    /\ od = IdleOd
    /\ sm = IdleSm
    /\ shared_epoch = 0
    /\ set_arg = 0
    /\ args = IdleArgs
    /\ run = IdleRun
    /\ tar = IdleTar
    /\ dl = IdleDl
    /\ pl = IdlePl
    /\ rs = IdleRs
    /\ ee = IdleEe
    /\ doc \in {[sample |-> d, pc |-> "new", out |-> [status |-> "none"]] :
                    d \in {x \in Docs : DocOk(x)}}

NextDoc == Preprocess

SpecDoc == InitDoc /\ [][NextDoc]_vars

-----------------------------------------------------------------------------
(* Claims about the interleaved preprocessor (SpecDoc). *)

DocDone == ~("idle" \in DOMAIN doc) /\ doc.pc = "done"

\* The positions of the image segments with both dimensions above 10.
ValidImages ==
    {i \in 1..Len(doc.sample) :
        /\ IsImageSegment(doc.sample[i])
        /\ parse_image(doc.sample[i])[1] > 10
        /\ parse_image(doc.sample[i])[2] > 10}

\* The first n of the positions in S.
FirstOf(S, n) == {i \in S : Cardinality({j \in S : j < i}) < n}

C18_NoTextRejected ==
    DocDone =>
        ((\A i \in 1..Len(doc.sample) : doc.sample[i] # "text")
            => doc.out.status # "ok")

\* The pieces of the assembled text that are image markers.
Markers ==
    LET IsMarker(piece) == piece.tok = "<image>" IN SelectSeq(doc.out.text, IsMarker)

\* The pieces of the assembled text that stand for a segment of the document:
\* the markers and the sentences.
SegmentPieces ==
    LET OfSegment(piece) == piece.tok \notin {"<|endofchunk|>", "eos"}
    IN  SelectSeq(doc.out.text, OfSegment)

\* C26: for an accepted document with k surviving images, k is 1..5, the
\* assembled text holds exactly k image markers, the i-th of them in the place
\* of the i-th surviving image among the surviving segments in document order,
\* and the image output has exactly five slots: the k images in that order and
\* then 5 - k slots of zeros.
C26_MarkersAlignWithSlots ==
    (DocDone /\ doc.out.status = "ok") =>
        LET k == Len(doc.out.images)
            kept == FirstOf(ValidImages, 5)
        IN  /\ k \in 1..5
            /\ k = Cardinality(kept)
            /\ Len(Markers) = k
            /\ \A i \in 1..k :
                  /\ Markers[i].pos = doc.out.images[i].pos
                  /\ Markers[i].pos \in kept
                  /\ Cardinality({j \in kept : j < Markers[i].pos}) = i - 1
            /\ \A a, b \in 1..Len(SegmentPieces) :
                  a < b => SegmentPieces[a].pos < SegmentPieces[b].pos
            /\ {SegmentPieces[a].pos : a \in 1..Len(SegmentPieces)} =
                  kept \cup {i \in 1..Len(doc.sample) : doc.sample[i] = "text"}
            /\ Len(doc.out.slots) = 5
            /\ \A i \in 1..5 :
                  doc.out.slots[i] = IF i <= k THEN doc.out.images[i].pos ELSE 0

\* A sentence, a small image, a kept image, a sentence, a kept image: two
\* markers, at the third and fifth place, and three slots of zeros.
C26_Witness ==
    /\ DocDone
    /\ doc.out.status = "ok"
    /\ doc.sample = <<"text", "narrow", "big", "text", "big">>
    /\ Len(Markers) = 2
    /\ Markers[1].pos = 3 /\ Markers[2].pos = 5
    /\ doc.out.slots = <<3, 5, 0, 0, 0>>

-----------------------------------------------------------------------------
(* preprocess_pile.                                                         *)
(*                                                                          *)
(* The sample is what sent_tokenize makes of the text: a list of sentences, *)
(* "text" for one with a word character in it and "punct" for one without.  *)
(* The two random draws are inputs of the call: rand, the outcome of        *)
(* torch.rand(n) <= 0.7 for each sentence, and perm, the head of            *)
(* torch.randperm that the cap reads.                                       *)

\* The samples tried: at most one sentence of punctuation, then the others.
PileSamples ==
    {[k \in 1..(p + n) |-> IF k <= p THEN "punct" ELSE "text"] :
        p \in 0..1, n \in 0..MaxSentences}

\* sentences = [s for s in sentences if not re.match(r"^\W+$", s)]
pile_sentences(sample) ==
    LET Worded(x) == x # "punct" IN SelectSeq(sample, Worded)

\* torch.nonzero(indices_replaced).squeeze(): the marked positions, ascending.
true_indices(indices_replaced) ==
    LET Marked(i) == indices_replaced[i]
    IN  SelectSeq([i \in 1..Len(indices_replaced) |-> i], Marked)

\* A cap that un-marks nothing.
overflowing_none(sum) == 0

\* overflowing = indices_replaced.sum() - 10
overflowing(sum) == sum - 10

\* The heads of a random permutation of 1..n that the cap may read: k
\* different indices.
PermHeads(n, k) ==
    IF k <= 0 THEN {<<>>}
    ELSE {q \in [1..k -> 1..n] : \A i, j \in 1..k : i # j => q[i] # q[j]}

\* "if indices_replaced.sum() > 10:", the mask after the cap.
cap_replaced(indices_replaced, perm) ==
    LET sum == Len(true_indices(indices_replaced))
        ti == true_indices(indices_replaced)
        off == {ti[perm[j]] : j \in 1..Min(overflowing(sum), Len(perm))}
    IN  IF sum > 10
        THEN [i \in 1..Len(indices_replaced) |-> indices_replaced[i] /\ i \notin off]
        ELSE indices_replaced

\* "pad to 10 sentences": the rows of clip_text_tensor and how many of them
\* are the zero padding.
pad_chosen(chosen) ==
    IF Len(chosen) < 10
    THEN [rows |-> Len(chosen) + (10 - Len(chosen)), zero |-> 10 - Len(chosen)]
    ELSE [rows |-> Len(chosen), zero |-> 0]

\* preprocess_pile
preprocess_pile(sample, rand, perm) ==
    LET sentences == pile_sentences(sample)
        indices_replaced == cap_replaced(rand, perm)
        chosen_sentences == true_indices(indices_replaced)
        out == [status |-> "ok", sentences |-> Len(sentences), rand |-> rand,
                indices_replaced |-> <<>>, chosen_sentences |-> <<>>,
                clip_text_tensor |-> [rows |-> 0, zero |-> 0]]
    IN  IF Len(sentences) = 0
        THEN [out EXCEPT !.status = "ValueError: No sentences in sample"]
        ELSE IF Len(true_indices(rand)) = 0
        THEN [out EXCEPT !.status = "ValueError: No sentences to mask"]
        ELSE [out EXCEPT !.indices_replaced = indices_replaced,
                         !.chosen_sentences = chosen_sentences,
                         !.clip_text_tensor = pad_chosen(chosen_sentences)]

\* The preprocessor is called on the sample; the draws are whatever the
\* global torch generator gives.
PreprocessPile ==
    /\ sm.pc = "new"
    /\ \E rand \in [1..Len(pile_sentences(sm.sample)) -> BOOLEAN] :
          \E perm \in PermHeads(Len(true_indices(rand)),
                                 Len(true_indices(rand)) - 10) :
              sm' = [sm EXCEPT !.pc = "done",
                               !.out = preprocess_pile(sm.sample, rand, perm)]
    /\ UNCHANGED <<shardVars, tarVars, driverVars, pipeVars, resVars, e2eVars, docVars, orderVars, cellVars, iterVars>>

InitPile ==
    /\ itr = IdleIt
    /\ ce = IdleCe
    /\ od = IdleOd
    /\ shared_epoch = 0
    /\ set_arg = 0
    /\ args = IdleArgs
    /\ run = IdleRun
    /\ tar = IdleTar
    /\ dl = IdleDl
    /\ pl = IdlePl
    /\ rs = IdleRs
    /\ ee = IdleEe
    /\ doc = IdleDoc
    /\ sm \in {[sample |-> x, pc |-> "new", out |-> [status |-> "none"]] :
                    x \in PileSamples}

NextPile == PreprocessPile

SpecPile == InitPile /\ [][NextPile]_vars

-----------------------------------------------------------------------------
(* Claims about the span-masking preprocessor (SpecPile). *)

PileDone == ~("idle" \in DOMAIN sm) /\ sm.pc = "done"

\* The positions a mask marks.
MarkedIn(mask) == {i \in 1..Len(mask) : mask[i]}

\* C19: the call rejects the sample exactly when no sentence survives or no
\* sentence was marked; otherwise the number m of marked sentences is between
\* 1 and min(10, number of sentences), the marks are the drawn ones less
\* exactly the excess over 10, and the masked-sentence output has 10 rows of
\* which the 10 - m after the marked sentences are zero padding.
C19_MarksOneToTen ==
    PileDone =>
        LET n == sm.out.sentences
            drawn == MarkedIn(sm.out.rand)
            m == Len(sm.out.chosen_sentences)
        IN  /\ sm.out.status = "ValueError: No sentences in sample" <=> n = 0
            /\ sm.out.status = "ValueError: No sentences to mask"
                  <=> (n > 0 /\ drawn = {})
            /\ sm.out.status = "ok" <=> (n > 0 /\ drawn # {})
            /\ sm.out.status = "ok" =>
                  /\ 1 <= m /\ m <= Min(10, n)
                  /\ MarkedIn(sm.out.indices_replaced) \subseteq drawn
                  /\ Cardinality(drawn \ MarkedIn(sm.out.indices_replaced))
                        = Max(0, Cardinality(drawn) - 10)
                  /\ Range(sm.out.chosen_sentences) = MarkedIn(sm.out.indices_replaced)
                  /\ sm.out.clip_text_tensor.rows = 10
                  /\ sm.out.clip_text_tensor.zero = 10 - m

\* Eleven sentences, all drawn: one was un-marked, ten are left, no padding.
C19_Witness ==
    /\ PileDone
    /\ sm.out.status = "ok"
    /\ sm.out.sentences = 11
    /\ Cardinality(MarkedIn(sm.out.rand)) = 11
    /\ Len(sm.out.chosen_sentences) = 10
    /\ sm.out.clip_text_tensor.zero = 0

-----------------------------------------------------------------------------
(* The order of the samples one worker yields.                              *)
(*                                                                          *)
(* One node with one worker runs its pipeline several times over the same   *)
(* shards: the shard stage (detshuffle2 and the splits, or ResampledShards2 *)
(* cut after MaxDraws shards), tarfile_to_samples_nothrow, wds.shuffle.     *)
(* Every shard holds od.per_shard samples, <<shard, 1>>, <<shard, 2>>, ...  *)

\* wds.shuffle is built without an rng, and _shuffle then makes its own,
\* seeded from the process id and the clock: a different seed every run.
ShuffleEntropy == {0, 1, 2}

\* The first n draws of ResampledShards2.__iter__ from generator state rng.
RECURSIVE ResampledDraws(_, _, _)
ResampledDraws(rng, urls, n) ==
    IF n = 0 THEN <<>>
    ELSE LET c == choice(rng, urls)
         IN  <<c.url>> \o ResampledDraws(c.rng, urls, n - 1)

\* The shards of a run, in the order the shard stage yields them.
OrderShards(o, epoch) ==
    IF o.resampled
    THEN ResampledDraws(ResampledShards2_seed(0, TRUE, o.worker_seed, epoch),
                        o.urls, MaxDraws)
    ELSE LET shuffled == shuffle(o.urls, 2000, 500,
                                 RngSeed(detshuffle2_seed(o.seed, epoch, <<0, 0>>)))
         IN  split_by_worker(split_by_node(shuffled, 0, 1), 0, 1)

\* tarfile_to_samples_nothrow: the samples of the shards, shard after shard.
RECURSIVE OrderSamples(_, _)
OrderSamples(shards, per_shard) ==
    IF shards = <<>> THEN <<>>
    ELSE [j \in 1..per_shard |-> <<Head(shards), j>>]
            \o OrderSamples(Tail(shards), per_shard)

\* One run of the pipeline, to the end of its stream.
OrderRun(entropy) ==
    /\ Len(od.runs) < MaxRuns
    /\ LET epoch == get_value(shared_epoch)
           shards == OrderShards(od, epoch)
           samples == OrderSamples(shards, od.per_shard)
           order == shuffle(samples, 5000, 1000, RngSeed(entropy))
       IN  od' = [od EXCEPT !.runs =
                     Append(@, [epoch |-> epoch, shards |-> shards, order |-> order])]
    /\ UNCHANGED <<shardVars, tarVars, driverVars, pipeVars, resVars, e2eVars,
                   docVars, pileVars, cellVars, iterVars>>

InitOrder ==
    /\ itr = IdleIt
    /\ ce = IdleCe
    /\ shared_epoch \in 0..MaxEpoch
    /\ set_arg = shared_epoch
    /\ args = IdleArgs
    /\ run = IdleRun
    /\ tar = IdleTar
    /\ dl = IdleDl
    /\ pl = IdlePl
    /\ rs = IdleRs
    /\ ee = IdleEe
    /\ doc = IdleDoc
    /\ sm = IdleSm
    /\ od \in {[urls |-> [k \in 1..n |-> k], per_shard |-> ps, seed |-> sd,
                 worker_seed |-> 0, resampled |-> re, runs |-> <<>>] :
                    n \in 1..MaxShards, ps \in 1..2, sd \in {0, 1}, re \in BOOLEAN}

NextOrder ==
    \/ \E entropy \in ShuffleEntropy : OrderRun(entropy)
    \/ \E n \in 0..MaxEpoch : set_epoch(n)

SpecOrder == InitOrder /\ [][NextOrder]_vars

-----------------------------------------------------------------------------
(* Claims about the sample order (SpecOrder). *)

Ordering == ~("idle" \in DOMAIN od)

\* C20: two runs of the worker's pipeline in the same epoch yield the same
\* samples in the same order.
C20_SameOrderEachRun ==
    Ordering =>
        \A i, j \in 1..Len(od.runs) :
            od.runs[i].epoch = od.runs[j].epoch => od.runs[i].order = od.runs[j].order

-----------------------------------------------------------------------------
(* SharedEpoch at the grain of its lock.                                    *)
(*                                                                          *)
(* multiprocessing.Value("i", epoch) is a C int in shared memory behind a   *)
(* wrapper with a lock: reading or assigning .value takes the lock, does    *)
(* the access and gives the lock back. The store of the int is taken to be  *)
(* two stores of a half word, which is the least a process without the lock *)
(* could count on. ce.trainer and ce.wk[w] are the private states of the    *)
(* processes; ce.allowed and ce.gets are history: for each get, the values  *)
(* a get may answer (the argument of the last set that had returned when    *)
(* the get was called, and of every set called while the get runs), and the *)
(* gets that returned, each with the value it answered.                     *)

HalfWord == 2 ^ 16

Hi(v) == v \div HalfWord

Lo(v) == v % HalfWord

Compose(hi, lo) == hi * HalfWord + lo

\* The epochs the trainer passes: their half words differ, so that a value
\* made of the halves of two of them is none of them or is told apart by when
\* it is allowed.
CellEpochs == {0, 1, Compose(1, 1)}

CellWorkers == 1..MaxReaders

\* A Value built with lock=False.
Value_lock_off == FALSE

\* Value("i", epoch): lock defaults to True.
Value_lock == TRUE

\* "with self._lock": the process goes on when the lock is free, or when
\* there is none.
LockFree == Value_lock => ce.lock = "free"

\* The lock once the process has it.
LockTaken == IF Value_lock THEN "held" ELSE ce.lock

\* The lock once the process has given it back.
LockGiven == IF Value_lock THEN "free" ELSE ce.lock

\* The trainer calls set_value(n).
SetCall(n) ==
    /\ ce.trainer.pc = "idle"
    /\ ce.sets < MaxSets
    /\ ce' = [ce EXCEPT !.trainer = [pc |-> "call", epoch |-> n],
                        !.sets = @ + 1,
                        !.said = @ \cup {n},
                        !.allowed = [w \in CellWorkers |->
                                        IF ce.wk[w].pc = "idle" THEN @[w] ELSE @[w] \cup {n}]]
    /\ set_arg' = n
    /\ UNCHANGED <<shared_epoch, args, run, tarVars, driverVars, pipeVars, resVars,
                   e2eVars, docVars, pileVars, orderVars, iterVars>>

\* set_value takes the lock.
SetAcquire ==
    /\ ce.trainer.pc = "call"
    /\ LockFree
    /\ ce' = [ce EXCEPT !.lock = LockTaken,
                        !.trainer.pc = "locked"]
    /\ UNCHANGED <<shardVars, tarVars, driverVars, pipeVars, resVars,
                   e2eVars, docVars, pileVars, orderVars, iterVars>>

\* set_value stores the low half of the value.
SetStoreLo ==
    /\ ce.trainer.pc = "locked"
    /\ shared_epoch' = Compose(Hi(shared_epoch), Lo(set_value(shared_epoch, ce.trainer.epoch)))
    /\ ce' = [ce EXCEPT !.trainer.pc = "half"]
    /\ UNCHANGED <<set_arg, args, run, tarVars, driverVars, pipeVars, resVars,
                   e2eVars, docVars, pileVars, orderVars, iterVars>>

\* set_value stores the high half of the value.
SetStoreHi ==
    /\ ce.trainer.pc = "half"
    /\ shared_epoch' = Compose(Hi(set_value(shared_epoch, ce.trainer.epoch)), Lo(shared_epoch))
    /\ ce' = [ce EXCEPT !.trainer.pc = "stored"]
    /\ UNCHANGED <<set_arg, args, run, tarVars, driverVars, pipeVars, resVars,
                   e2eVars, docVars, pileVars, orderVars, iterVars>>

\* set_value gives the lock back and returns.
SetReturn ==
    /\ ce.trainer.pc = "stored"
    /\ ce' = [ce EXCEPT !.lock = LockGiven,
                        !.trainer.pc = "idle",
                        !.committed = ce.trainer.epoch]
    /\ UNCHANGED <<shardVars, tarVars, driverVars, pipeVars, resVars,
                   e2eVars, docVars, pileVars, orderVars, iterVars>>

\* The values a get called now may answer.
AllowedNow ==
    {ce.committed} \cup (IF ce.trainer.pc = "idle" THEN {} ELSE {ce.trainer.epoch})

\* Worker w calls get_value().
GetCall(w) ==
    /\ ce.wk[w].pc = "idle"
    /\ ce.calls < MaxGets
    /\ ce' = [ce EXCEPT !.wk[w].pc = "call", !.allowed[w] = AllowedNow,
                        !.calls = @ + 1]
    /\ UNCHANGED <<shardVars, tarVars, driverVars, pipeVars, resVars,
                   e2eVars, docVars, pileVars, orderVars, iterVars>>

\* get_value takes the lock.
GetAcquire(w) ==
    /\ ce.wk[w].pc = "call"
    /\ LockFree
    /\ ce' = [ce EXCEPT !.lock = LockTaken, !.wk[w].pc = "locked"]
    /\ UNCHANGED <<shardVars, tarVars, driverVars, pipeVars, resVars,
                   e2eVars, docVars, pileVars, orderVars, iterVars>>

\* get_value loads the value.
GetLoad(w) ==
    /\ ce.wk[w].pc = "locked"
    /\ ce' = [ce EXCEPT !.wk[w] = [pc |-> "loaded", value |-> get_value(shared_epoch)]]
    /\ UNCHANGED <<shardVars, tarVars, driverVars, pipeVars, resVars,
                   e2eVars, docVars, pileVars, orderVars, iterVars>>

\* get_value gives the lock back and returns the value.
GetReturn(w) ==
    /\ ce.wk[w].pc = "loaded"
    /\ ce' = [ce EXCEPT !.lock = LockGiven,
                        !.wk[w].pc = "idle",
                        !.gets = @ \cup {[w |-> w, value |-> ce.wk[w].value,
                                            allowed |-> ce.allowed[w]]}]
    /\ UNCHANGED <<shardVars, tarVars, driverVars, pipeVars, resVars,
                   e2eVars, docVars, pileVars, orderVars, iterVars>>

InitCell ==
    /\ itr = IdleIt
    /\ args = IdleArgs
    /\ run = IdleRun
    /\ tar = IdleTar
    /\ dl = IdleDl
    /\ pl = IdlePl
    /\ rs = IdleRs
    /\ ee = IdleEe
    /\ doc = IdleDoc
    /\ sm = IdleSm
    /\ od = IdleOd
    /\ shared_epoch \in CellEpochs
    /\ set_arg = shared_epoch
    /\ ce = [lock |-> "free", trainer |-> [pc |-> "idle", epoch |-> shared_epoch],
             wk |-> [w \in CellWorkers |-> [pc |-> "idle", value |-> shared_epoch]],
             initial |-> shared_epoch, committed |-> shared_epoch, sets |-> 0,
             said |-> {shared_epoch},
             allowed |-> [w \in CellWorkers |-> {}], calls |-> 0, gets |-> {}]

NextCell ==
    \/ \E n \in CellEpochs : SetCall(n)
    \/ SetAcquire
    \/ SetStoreLo
    \/ SetStoreHi
    \/ SetReturn
    \/ \E w \in CellWorkers : GetCall(w)
    \/ \E w \in CellWorkers : GetAcquire(w)
    \/ \E w \in CellWorkers : GetLoad(w)
    \/ \E w \in CellWorkers : GetReturn(w)

SpecCell == InitCell /\ [][NextCell]_vars

-----------------------------------------------------------------------------
(* Claims about the epoch cell (SpecCell). *)

\* A step of worker w changes the private state of no other process and
\* does not write the cell.
CellFrame ==
    \A w \in CellWorkers :
        ce.wk[w]' # ce.wk[w] =>
            /\ \A v \in CellWorkers \ {w} : ce.wk[v]' = ce.wk[v]
            /\ ce.trainer' = ce.trainer
            /\ shared_epoch' = shared_epoch

\* C22: with one trainer that sets and any workers that get, every get
\* answers the initial value or the argument of a set, and more exactly the
\* argument of the last set that had returned when the get was called (the
\* initial value if none had) or of a set called while the get ran; while no
\* set runs the cell holds the argument of the last set that returned; and a
\* step of a worker changes its own state only.
C22_AtomicCell ==
    /\ [](\A g \in ce.gets : g.value \in g.allowed /\ g.allowed \subseteq ce.said)
    /\ [](ce.trainer.pc = "idle" => shared_epoch = ce.committed)
    /\ [][CellFrame]_vars

\* One set of a value that differs from the initial one in both halves: a
\* get called while the set ran has answered the new value, and so has a get
\* of the other worker called after the set returned.
C22_Witness ==
    /\ ce.initial = 0
    /\ ce.sets = 1
    /\ ce.trainer.pc = "idle"
    /\ ce.gets = {[w |-> 1, value |-> Compose(1, 1), allowed |-> {0, Compose(1, 1)}],
                  [w |-> 2, value |-> Compose(1, 1), allowed |-> {Compose(1, 1)}]}

-----------------------------------------------------------------------------
(* The passes of a pipeline.                                                *)
(*                                                                          *)
(* A builder ends with dataset.with_epoch(num_worker_batches): an iteration *)
(* of the dataset in a worker process runs the pipeline, and runs it again  *)
(* whenever it is exhausted, until the batches are delivered. Each run is a *)
(* pass: it calls the first stage anew, detshuffle2.run without resampling  *)
(* and ResampledShards2.__iter__ with it. The resampled source is built     *)
(* with the default nshards and never runs out, so its iterations have one  *)
(* pass. Each worker process has its own copy of the stage. itr[w].passes   *)
(* is the history of the passes of worker w: the pass that opened its       *)
(* iteration (head), the value of the shared cell when it started, the      *)
(* epoch and the seed it took and the shards in the order it yields them    *)
(* (those drawn so far with resampling).                                    *)

\* Two dataloader workers of one node.
IterProcs == {<<0, 0>>, <<0, 1>>}

\* The pipelines tried: as the builders make them, on the shared cell, and
\* with the stage given a plain integer epoch (-1) instead.
IterArgs ==
    {[urls |-> [i \in 1..MaxShards |-> i], seed |-> sd, world_size |-> 1,
      workers |-> 2, bufsize |-> 2000, initial |-> 500,
      base_seed |-> [r \in Ranks |-> 0], shared |-> sh, epoch |-> 0,
      resampled |-> rsm] :
        sd \in {-1, 0}, sh \in BOOLEAN, rsm \in BOOLEAN}

\* The passes started so far.
PassesStarted == Len(itr[<<0, 0>>].passes) + Len(itr[<<0, 1>>].passes)

\* A pass of worker w starts: the first stage takes its epoch and seeds its
\* generator; detshuffle2.run shuffles the shard list.
PassStart(w, first) ==
    LET st == itr[w]
        k == Len(st.passes) + 1
        e == IF args.resampled
             THEN ResampledShards2_epoch(st.self_epoch, shared_epoch)
             ELSE detshuffle2_epoch(st.self_epoch, shared_epoch)
        seed == IF args.resampled
                THEN pytorch_worker_seed(w) + e.epoch
                ELSE detshuffle2_seed(args.seed, e.epoch, w)
        rng == IF args.resampled
               THEN ResampledShards2_seed(st.rng, TRUE, pytorch_worker_seed(w), e.epoch)
               ELSE st.rng
        order == IF args.resampled THEN <<>>
                 ELSE shuffle(args.urls, args.bufsize, args.initial, RngSeed(seed))
        pass == [head |-> IF first THEN k ELSE st.passes[k - 1].head,
                 cell |-> shared_epoch, epoch |-> e.epoch, seed |-> seed,
                 order |-> order]
    IN  /\ itr' = [itr EXCEPT ![w] = [self_epoch |-> e.self_epoch, rng |-> rng,
                                      on |-> TRUE, passes |-> Append(st.passes, pass)]]
        /\ shared_epoch' = e.cell
        /\ UNCHANGED <<set_arg, args, run, tarVars, driverVars, pipeVars, resVars,
                       e2eVars, docVars, pileVars, orderVars, cellVars>>

\* The loader asks worker w for an iteration of the dataset: with_epoch runs
\* the pipeline.
Iterate(w) ==
    /\ ~itr[w].on
    /\ PassesStarted < MaxPasses
    /\ PassStart(w, TRUE)

\* The shards of worker w are exhausted before its batches are delivered:
\* with_epoch runs the pipeline again.
Repeat(w) ==
    /\ itr[w].on
    /\ ~args.resampled
    /\ PassesStarted < MaxPasses
    /\ PassStart(w, FALSE)

\* The resampled source of worker w yields one more shard.
Draw(w) ==
    /\ itr[w].on
    /\ args.resampled
    /\ LET k == Len(itr[w].passes)
           c == choice(itr[w].rng, args.urls)
       IN  /\ Len(itr[w].passes[k].order) < MaxDraws
           /\ itr' = [itr EXCEPT ![w].passes[k].order = Append(@, c.url),
                                 ![w].rng = c.rng]
    /\ UNCHANGED <<shardVars, tarVars, driverVars, pipeVars, resVars,
                   e2eVars, docVars, pileVars, orderVars, cellVars>>

\* with_epoch has delivered the batches of worker w: the iteration is over
\* (with resampling, the batches take MaxDraws shards).
Finish(w) ==
    /\ itr[w].on
    /\ args.resampled =>
          Len(itr[w].passes[Len(itr[w].passes)].order) = MaxDraws
    /\ itr' = [itr EXCEPT ![w].on = FALSE]
    /\ UNCHANGED <<shardVars, tarVars, driverVars, pipeVars, resVars,
                   e2eVars, docVars, pileVars, orderVars, cellVars>>

InitIterate ==
    /\ run = IdleRun
    /\ tar = IdleTar
    /\ dl = IdleDl
    /\ pl = IdlePl
    /\ rs = IdleRs
    /\ ee = IdleEe
    /\ doc = IdleDoc
    /\ sm = IdleSm
    /\ od = IdleOd
    /\ ce = IdleCe
    /\ args \in IterArgs
    /\ shared_epoch = args.epoch
    /\ set_arg = args.epoch
    /\ itr = [w \in IterProcs |->
                 [self_epoch |-> [shared |-> args.shared, n |-> -1], rng |-> 1,
                  on |-> FALSE, passes |-> <<>>]]

NextIterate ==
    \/ \E n \in 0..MaxEpoch : set_epoch(n)
    \/ \E w \in IterProcs : Iterate(w)
    \/ \E w \in IterProcs : Repeat(w)
    \/ \E w \in IterProcs : Draw(w)
    \/ \E w \in IterProcs : Finish(w)

SpecIterate == InitIterate /\ [][NextIterate]_vars

-----------------------------------------------------------------------------
(* Claims about the passes (SpecIterate). *)

\* The first n shards a pass of worker w yields when it takes the epoch e.
PassOrder(w, e, n) ==
    IF args.resampled
    THEN ResampledDraws(RngSeed(pytorch_worker_seed(w) + e), args.urls, n)
    ELSE shuffle(args.urls, args.bufsize, args.initial,
                 RngSeed(IF args.seed < 0 THEN pytorch_worker_seed(w) + e
                         ELSE args.seed + e))

PassesOf(w) == 1..Len(itr[w].passes)

\* C21 as stated: on the shared cell, the pass that opens an iteration takes
\* the value the cell has at that moment, and all the shards of the iteration
\* come in the order fixed by that value, whatever set_epoch does meanwhile.
C21_IterationKeepsStartEpoch ==
    args.shared =>
        \A w \in IterProcs : \A k \in PassesOf(w) :
            LET p == itr[w].passes[k]
                h == itr[w].passes[p.head]
            IN  /\ h.epoch = h.cell
                /\ p.order = PassOrder(w, h.epoch, Len(p.order))

\* C21 as amended: on the shared cell, every pass (the one that opens an
\* iteration and each one with_epoch starts within it) takes the value the
\* cell has when the pass starts, and the shards of the pass come in the
\* order fixed by that value, whatever set_epoch does meanwhile; a resampled
\* iteration has one pass.
C21_PassKeepsStartEpoch ==
    args.shared =>
        \A w \in IterProcs : \A k \in PassesOf(w) :
            LET p == itr[w].passes[k]
            IN  /\ p.epoch = p.cell
                /\ p.order = PassOrder(w, p.epoch, Len(p.order))
                /\ args.resampled => p.head = k

\* Without resampling, set_epoch was called with another epoch during an
\* iteration, and the pass with_epoch then started yields the shards in
\* another order than the pass that opened the iteration.
C21_Witness ==
    /\ args.shared
    /\ ~args.resampled
    /\ \E w \in IterProcs :
          /\ Len(itr[w].passes) = 2
          /\ itr[w].passes[2].head = 1
          /\ itr[w].passes[2].epoch # itr[w].passes[1].epoch
          /\ itr[w].passes[2].order # itr[w].passes[1].order

\* C25: every call of detshuffle2.run seeds its generator with seed + epoch
\* when seed >= 0 and with the worker seed + epoch when seed < 0, and yields
\* the shards in the order a generator new from that seed gives; so two calls
\* in one worker with different epochs have different seeds, and with
\* seed >= 0 so have two calls in any workers.
C25_SeedDerivation ==
    ~args.resampled =>
        \A w \in IterProcs : \A k \in PassesOf(w) :
            LET p == itr[w].passes[k]
            IN  /\ p.seed = IF args.seed >= 0 THEN args.seed + p.epoch
                            ELSE pytorch_worker_seed(w) + p.epoch
                /\ p.order = shuffle(args.urls, args.bufsize, args.initial, RngSeed(p.seed))
                /\ \A v \in IterProcs : \A j \in PassesOf(v) :
                      (/\ v = w \/ args.seed >= 0
                       /\ itr[v].passes[j].epoch # p.epoch)
                      => itr[v].passes[j].seed # p.seed

\* With seed < 0, the second worker has made two calls at different epochs:
\* the seeds are its worker seed plus the epoch, the orders differ.
C25_Witness ==
    /\ ~args.resampled
    /\ args.seed < 0
    /\ Len(itr[<<0, 1>>].passes) = 2
    /\ itr[<<0, 1>>].passes[1].epoch = 1
    /\ itr[<<0, 1>>].passes[1].seed = 2
    /\ itr[<<0, 1>>].passes[2].epoch = 0
    /\ itr[<<0, 1>>].passes[2].seed = 1
    /\ itr[<<0, 1>>].passes[1].order # itr[<<0, 1>>].passes[2].order

\* C28: a step that starts or runs an iteration in a worker leaves the
\* shared cell as it is; the cell holds what set_epoch last stored.
C28_IterationLeavesCell ==
    /\ [](shared_epoch = set_arg)
    /\ [][itr' # itr => shared_epoch' = shared_epoch]_vars

\* On the shared cell, with resampling, the workers have started three
\* iterations between them and drawn their shards, and the cell holds the
\* epoch it was built with.
C28_Witness ==
    /\ args.shared
    /\ args.resampled
    /\ Len(itr[<<0, 0>>].passes) = 2
    /\ Len(itr[<<0, 1>>].passes) = 1
    /\ \A w \in IterProcs :
          Len(itr[w].passes[Len(itr[w].passes)].order) = MaxDraws
    /\ shared_epoch = args.epoch

\* C30: a stage built with the plain integer epoch -1 takes the epoch k - 1
\* at its k-th start, whatever set_epoch stores in the cell and however often
\* the stage of the other worker has started.
C30_PrivateCounter ==
    ~args.shared =>
        \A w \in IterProcs :
            /\ itr[w].self_epoch.n = Len(itr[w].passes) - 1
            /\ \A k \in PassesOf(w) : itr[w].passes[k].epoch = k - 1

\* A stage with its own counter has started twice, at epochs 0 and 1, while
\* the cell held 1 and then 0; the stage of the other worker has started
\* once.
C30_Witness ==
    /\ ~args.shared
    /\ Len(itr[<<0, 0>>].passes) = 2
    /\ itr[<<0, 0>>].passes[1].epoch = 0 /\ itr[<<0, 0>>].passes[1].cell = 1
    /\ itr[<<0, 0>>].passes[2].epoch = 1 /\ itr[<<0, 0>>].passes[2].cell = 0
    /\ Len(itr[<<0, 1>>].passes) = 1
    /\ itr[<<0, 1>>].passes[1].epoch = 0
====
